---------------------------- MODULE Spec2Model ----------------------------
(***************************************************************************)
(* A model of the state-management core of inphest (src/inphest/model.py): *)
(* the per-replicate host projection (HostLineage / Area), the symbiont    *)
(* lineage association cache (SymbiontLineage), the topology operations of *)
(* SymbiontPhylogeny, and the InphestModel configuration parser / writer.  *)
(*                                                                         *)
(* Every public method is one action.  A method that raises part-way is    *)
(* modelled with the mutations it made before the raise; the exception is  *)
(* recorded in the variable result.                                        *)
(***************************************************************************)
EXTENDS Integers, Sequences, FiniteSets, TLC

(***************************************************************************)
(* Bounds of the model.                                                    *)
(***************************************************************************)
NumHosts == 2
NumAreas == 2
MaxLineages == 3
MaxTime == 3
MaxEvents == 3
MaxCheckTime == 5
Precision == 3
MaxWeights == 2

(***************************************************************************)
(* Program constants.                                                      *)
(***************************************************************************)
host_to_symbiont_time_scale_factor == 1
\* epsilon of debug_check_extancy_state (1e-6), in the unit the times of
\* SpecExtancyCheck are measured in (half an epsilon)
epsilon == 2

None == -1

HostLineages == 1..NumHosts
Areas == 0..(NumAreas - 1)
LineageIds == 0..(MaxLineages - 1)
Times == 0..MaxTime

(***************************************************************************)
(* The host history the replicate is built from: for host lineage h, the   *)
(* lineage definition's times and start distribution bitstring (the        *)
(* bitstring is a sequence of "0"/"1", position i+1 for area index i).     *)
(***************************************************************************)
lineage_start_time(h) == h - 1
lineage_end_time(h) == h + 1
lineage_start_distribution_bitstring(h) ==
    [i \in 1..NumAreas |-> IF i <= h THEN "1" ELSE "0"]

start_time(h) == lineage_start_time(h) * host_to_symbiont_time_scale_factor
end_time(h) == lineage_end_time(h) * host_to_symbiont_time_scale_factor
start_distribution_bitstring(h) == lineage_start_distribution_bitstring(h)

is_in_range(x, a, b) == a <= x /\ x <= b

VARIABLES
    extancy,                \* HostLineage.extancy, per host
    current_areas,          \* HostLineage._current_areas, per host
    host_lineages,          \* Area.host_lineages, per area
    symbiont_lineages,      \* Area.symbiont_lineages, per area
    host_area_distribution, \* SymbiontLineage._host_area_distribution, per lineage
    infected_hosts,         \* SymbiontLineage._infected_hosts, per lineage
    infected_areas,         \* SymbiontLineage._infected_areas, per lineage
    is_extant,              \* SymbiontLineage.is_extant, per lineage
    child_nodes,            \* dendropy.Node._child_nodes, per lineage
    current_lineages,       \* SymbiontPhylogeny.current_lineages
    lineage_indexer,        \* SymbiontPhylogeny.lineage_indexer: next index
    host_order,             \* iteration order of the dict _host_area_distribution
                            \* (<<>> until a loop over it first observes the order)
    host_systems,           \* per replicate: HostSystem.areas, host_lineages_by_id
                            \* (object identities) and host_events
    other_objects,          \* the Area and HostLineage objects that are not the ones
                            \* of replicate 1 (whose state the variables above hold)
    events,                 \* HostHistory.events
    lineages,               \* HostHistory.lineages: lineage id -> HostLineageDefinition
    host_history,           \* HostHistory.start_time, end_time and, once compile
                            \* has set it, tree (the keys of the tree's nodes)
    model_definition,       \* the definition dictionary handed to parse_definition
    model,                  \* the attributes of the InphestModel parsed from it
    written,                \* the structure write_model emitted for model
    reparsed,               \* the attributes of a second InphestModel, parsed from written
    rate_function_definition, \* the definition dictionary a RateFunction is built from
    rate_function,          \* the attributes of that RateFunction
    arguments,              \* the arguments of the last query or function call
    returned,               \* the value the last query or function call returned
    lastOp,                 \* the method called last
    result                  \* how the last call ended: "ok" or the exception

hostVars == <<extancy, current_areas, host_lineages>>
symVars == <<symbiont_lineages, host_area_distribution, infected_hosts, infected_areas>>
phyVars == <<is_extant, child_nodes, current_lineages, lineage_indexer>>
modelVars == <<model_definition, model, written, reparsed>>
historyVars == <<events, lineages, host_history>>
replicateVars == <<host_systems, other_objects>>
callVars == <<rate_function_definition, rate_function, arguments, returned>>
vars == <<lastOp, result, extancy, current_areas, host_lineages, symbiont_lineages,
          host_area_distribution, infected_hosts, infected_areas, is_extant,
          child_nodes, current_lineages, lineage_indexer, host_order,
          host_systems, other_objects, events, lineages, host_history,
          model_definition, model, written, reparsed, rate_function_definition,
          rate_function, arguments, returned>>

(***************************************************************************)
(* Helpers.                                                                *)
(***************************************************************************)
\* the orders in which a Python set (or dict) S can be iterated
Orders(S) ==
    {q \in [1..Cardinality(S) -> S] : \A i, j \in 1..Cardinality(S) : q[i] = q[j] => i = j}

\* the lineages constructed so far (node_factory calls)
Created == {l \in LineageIds : l < lineage_indexer}

EmptyDistribution == [h \in HostLineages |-> [a \in Areas |-> 0]]

(***************************************************************************)
(* HostLineage.  A handler works on a record hs of the host-side state     *)
(* (ca: _current_areas, hl: Area.host_lineages, ext: extancy) and the      *)
(* exception raised so far (exc); a step after a raise is skipped.         *)
(***************************************************************************)
HostState == [ca |-> current_areas, hl |-> host_lineages, ext |-> extancy, exc |-> "ok"]

HostCommit(hs) ==
    /\ current_areas' = hs.ca
    /\ host_lineages' = hs.hl
    /\ extancy' = hs.ext
    /\ result' = hs.exc

\* HostLineage.add_area
HostAddArea(hs, h, a) ==
    IF hs.exc # "ok" THEN hs
    ELSE IF a \in hs.ca[h] THEN [hs EXCEPT !.exc = "AssertionError"]
    ELSE [hs EXCEPT !.ca[h] = @ \cup {a}, !.hl[a] = @ \cup {h}]

\* a remove_area that forgets the Area's back-reference
HostRemoveAreaKeepsBackReference(hs, h, a) ==
    IF hs.exc # "ok" THEN hs
    ELSE IF a \notin hs.ca[h] THEN [hs EXCEPT !.exc = "AssertionError"]
    ELSE [hs EXCEPT !.ca[h] = @ \ {a}]

\* HostLineage.remove_area
HostRemoveArea(hs, h, a) ==
    IF hs.exc # "ok" THEN hs
    ELSE IF a \notin hs.ca[h] THEN [hs EXCEPT !.exc = "AssertionError"]
    ELSE IF h \notin hs.hl[a] THEN [hs EXCEPT !.ca[h] = @ \ {a}, !.exc = "KeyError"]
    ELSE [hs EXCEPT !.ca[h] = @ \ {a}, !.hl[a] = @ \ {h}]

\* the loop "for area in self._current_areas: area.host_lineages.remove(self)"
RECURSIVE HostDetachLoop(_, _, _, _)
HostDetachLoop(hs, h, ord, i) ==
    IF i > Len(ord) \/ hs.exc # "ok" THEN hs
    ELSE IF h \notin hs.hl[ord[i]] THEN [hs EXCEPT !.exc = "KeyError"]
    ELSE HostDetachLoop([hs EXCEPT !.hl[ord[i]] = @ \ {h}], h, ord, i + 1)

\* the loop of activate over zip(enumerate(areas), enumerate(bitstring))
RECURSIVE HostSeedLoop(_, _, _)
HostSeedLoop(hs, h, idx) ==
    IF idx >= NumAreas \/ hs.exc # "ok" THEN hs
    ELSE IF start_distribution_bitstring(h)[idx + 1] = "1"
         THEN HostSeedLoop(HostAddArea(hs, h, idx), h, idx + 1)
         ELSE HostSeedLoop(hs, h, idx + 1)

\* an activate that seeds the areas before it looks at the time
HostActivateSeedsFirst(hs, h, t) ==
    IF hs.ext[h] # "pre" THEN [hs EXCEPT !.exc = "AssertionError"]
    ELSE IF NumAreas # Len(start_distribution_bitstring(h))
         THEN [hs EXCEPT !.exc = "AssertionError"]
    ELSE LET seeded == HostSeedLoop(hs, h, 0)
         IN IF seeded.exc # "ok" THEN seeded
            ELSE IF t # None /\ ~is_in_range(t, start_time(h), end_time(h))
                 THEN [seeded EXCEPT !.exc = "NameError"]
            ELSE [seeded EXCEPT !.ext[h] = "current"]

\* HostLineage.activate.  When the time is out of range the assert evaluates
\* its message, which reads the unbound name lineage_id: the NameError is not
\* caught by "except AssertionError" and is what the caller sees.
HostActivate(hs, h, t) ==
    IF hs.ext[h] # "pre" THEN [hs EXCEPT !.exc = "AssertionError"]
    ELSE IF t # None /\ ~is_in_range(t, start_time(h), end_time(h))
         THEN [hs EXCEPT !.exc = "NameError"]
    ELSE IF NumAreas # Len(start_distribution_bitstring(h))
         THEN [hs EXCEPT !.exc = "AssertionError"]
    ELSE LET seeded == HostSeedLoop(hs, h, 0)
         IN IF seeded.exc # "ok" THEN seeded
            ELSE [seeded EXCEPT !.ext[h] = "current"]

\* a deactivate that rewinds the lineage to "pre" instead of retiring it
HostDeactivateRewinds(hs, h, ord) ==
    IF hs.ext[h] # "current" THEN [hs EXCEPT !.exc = "AssertionError"]
    ELSE LET detached == HostDetachLoop(hs, h, ord, 1)
         IN IF detached.exc # "ok" THEN detached
            ELSE [detached EXCEPT !.ca[h] = {}, !.ext[h] = "pre"]

HostDeactivate(hs, h, ord) ==
    IF hs.ext[h] # "current" THEN [hs EXCEPT !.exc = "AssertionError"]
    ELSE LET detached == HostDetachLoop(hs, h, ord, 1)
         IN IF detached.exc # "ok" THEN detached
            ELSE [detached EXCEPT !.ca[h] = {}, !.ext[h] = "post"]

HostClearAreas(hs, h, ord) ==
    LET detached == HostDetachLoop(hs, h, ord, 1)
    IN IF detached.exc # "ok" THEN detached
       ELSE [detached EXCEPT !.ca[h] = {}]

activate(h, t) ==
    /\ HostCommit(HostActivate(HostState, h, t))
    /\ lastOp' = "activate"
    /\ UNCHANGED <<symVars, phyVars, host_order, modelVars, historyVars, replicateVars, callVars>>

\* a deactivate that also evicts the symbionts of the areas the host leaves
deactivate_evicting(h) ==
    /\ \E ord \in Orders(current_areas[h]) :
           HostCommit(HostDeactivate(HostState, h, ord))
    /\ lastOp' = "deactivate"
    /\ symbiont_lineages' = [a \in Areas |-> IF a \in current_areas[h] THEN {}
                                             ELSE symbiont_lineages[a]]
    /\ UNCHANGED <<host_area_distribution, infected_hosts, infected_areas, phyVars,
                   host_order, modelVars, historyVars, replicateVars, callVars>>

deactivate(h) ==
    /\ \E ord \in Orders(current_areas[h]) :
           HostCommit(HostDeactivate(HostState, h, ord))
    /\ lastOp' = "deactivate"
    /\ UNCHANGED <<symVars, phyVars, host_order, modelVars, historyVars, replicateVars, callVars>>

add_area(h, a) ==
    /\ HostCommit(HostAddArea(HostState, h, a))
    /\ lastOp' = "add_area"
    /\ UNCHANGED <<symVars, phyVars, host_order, modelVars, historyVars, replicateVars, callVars>>

remove_area(h, a) ==
    /\ HostCommit(HostRemoveArea(HostState, h, a))
    /\ lastOp' = "remove_area"
    /\ UNCHANGED <<symVars, phyVars, host_order, modelVars, historyVars, replicateVars, callVars>>

clear_areas(h) ==
    /\ \E ord \in Orders(current_areas[h]) :
           HostCommit(HostClearAreas(HostState, h, ord))
    /\ lastOp' = "clear_areas"
    /\ UNCHANGED <<symVars, phyVars, host_order, modelVars, historyVars, replicateVars, callVars>>

(***************************************************************************)
(* SymbiontLineage.  A handler works on a record s of the symbiont-side    *)
(* state (d: _host_area_distribution, ih: _infected_hosts, ia:             *)
(* _infected_areas, sl: Area.symbiont_lineages) and the exception raised   *)
(* so far (exc).  The host-side state is only read.                        *)
(***************************************************************************)
SymState == [d |-> host_area_distribution, ih |-> infected_hosts,
             ia |-> infected_areas, sl |-> symbiont_lineages, exc |-> "ok"]

SymCommit(s) ==
    /\ host_area_distribution' = s.d
    /\ infected_hosts' = s.ih
    /\ infected_areas' = s.ia
    /\ symbiont_lineages' = s.sl
    /\ result' = s.exc

\* HostLineage.has_area
has_area(h, a) == a \in current_areas[h]

\* the three statements that mark one cell (both branches of add_host_in_area)
SymMarkCell(s, l, h, a) ==
    [s EXCEPT !.d[l][h][a] = 1, !.sl[a] = @ \cup {l}, !.ia[l] = @ \cup {a}]

RECURSIVE SymMarkLoop(_, _, _, _, _)
SymMarkLoop(s, l, h, ord, i) ==
    IF i > Len(ord) THEN s
    ELSE SymMarkLoop(SymMarkCell(s, l, h, ord[i]), l, h, ord, i + 1)

\* an add_host_in_area that marks the cell before it looks at the host's areas
SymAddHostInAreaMarksFirst(s, l, h, area, ord) ==
    IF s.exc # "ok" THEN s
    ELSE IF area = None
         THEN LET marked == SymMarkLoop(s, l, h, ord, 1)
              IN [marked EXCEPT !.ih[l] = @ \cup {h}]
    ELSE LET marked == SymMarkCell(s, l, h, area)
         IN IF ~has_area(h, area) THEN [marked EXCEPT !.exc = "AssertionError"]
            ELSE [marked EXCEPT !.ih[l] = @ \cup {h}]

\* SymbiontLineage.add_host_in_area; ord is the order of current_area_iter()
SymAddHostInArea(s, l, h, area, ord) ==
    IF s.exc # "ok" THEN s
    ELSE IF area = None
         THEN LET marked == SymMarkLoop(s, l, h, ord, 1)
              IN [marked EXCEPT !.ih[l] = @ \cup {h}]
    ELSE IF ~has_area(h, area) THEN [s EXCEPT !.exc = "AssertionError"]
    ELSE LET marked == SymMarkCell(s, l, h, area)
         IN [marked EXCEPT !.ih[l] = @ \cup {h}]

\* SymbiontLineage.sync_area_cache: whatever search_all_hosts is, the loop
\* runs over area.host_lineages
SymSyncAreaCache(s, l, a, search_all_hosts) ==
    IF s.exc # "ok" THEN s
    ELSE LET host_lineage_iter == IF search_all_hosts THEN HostLineages
                                  ELSE host_lineages[a]
         IN IF \E h \in host_lineages[a] : s.d[l][h][a] = 1
            THEN [s EXCEPT !.ia[l] = @ \cup {a}, !.sl[a] = @ \cup {l}]
            ELSE IF a \notin s.ia[l] THEN [s EXCEPT !.exc = "KeyError"]
            ELSE IF l \notin s.sl[a]
                 THEN [s EXCEPT !.ia[l] = @ \ {a}, !.exc = "KeyError"]
            ELSE [s EXCEPT !.ia[l] = @ \ {a}, !.sl[a] = @ \ {l}]

\* SymbiontLineage.sync_host_cache
SymSyncHostCache(s, l, h, search_all_areas) ==
    IF s.exc # "ok" THEN s
    ELSE LET area_iter == IF search_all_areas THEN Areas ELSE current_areas[h]
         IN IF \E a \in area_iter : s.d[l][h][a] = 1
            THEN [s EXCEPT !.ih[l] = @ \cup {h}]
            ELSE IF h \notin s.ih[l] THEN [s EXCEPT !.exc = "KeyError"]
            ELSE [s EXCEPT !.ih[l] = @ \ {h}]

\* SymbiontLineage.check_for_null_distribution
SymCheckForNullDistribution(s, l) ==
    IF s.exc # "ok" THEN s
    ELSE IF s.ih[l] = {} \/ s.ia[l] = {}
         THEN [s EXCEPT !.exc = "NullDistributionException"]
    ELSE s

\* the loop of remove_host over host_lineage.current_area_iter()
RECURSIVE SymRemoveHostLoop(_, _, _, _, _)
SymRemoveHostLoop(s, l, h, ord, i) ==
    IF i > Len(ord) \/ s.exc # "ok" THEN s
    ELSE IF s.d[l][h][ord[i]] > 0
         THEN SymRemoveHostLoop(
                  SymSyncAreaCache([s EXCEPT !.d[l][h][ord[i]] = 0], l, ord[i], FALSE),
                  l, h, ord, i + 1)
         ELSE SymRemoveHostLoop(s, l, h, ord, i + 1)

\* SymbiontLineage.remove_host
SymRemoveHost(s, l, h, ord) ==
    LET looped == SymRemoveHostLoop(s, l, h, ord, 1)
        removed == IF looped.exc # "ok" THEN looped
                   ELSE IF h \notin looped.ih[l] THEN [looped EXCEPT !.exc = "KeyError"]
                   ELSE [looped EXCEPT !.ih[l] = @ \ {h}]
    IN SymCheckForNullDistribution(removed, l)

\* SymbiontLineage.remove_host_in_area
SymRemoveHostInArea(s, l, h, area, ord) ==
    IF area = None THEN SymRemoveHost(s, l, h, ord)
    ELSE IF ~has_area(h, area) THEN [s EXCEPT !.exc = "AssertionError"]
    ELSE SymCheckForNullDistribution(
             SymSyncHostCache(
                 SymSyncAreaCache([s EXCEPT !.d[l][h][area] = 0], l, area, FALSE),
                 l, h, FALSE),
             l)

\* the loop "for area in self._infected_areas: area.symbiont_lineages.remove(self)"
RECURSIVE SymDetachLoop(_, _, _, _)
SymDetachLoop(s, l, ord, i) ==
    IF i > Len(ord) \/ s.exc # "ok" THEN s
    ELSE IF l \notin s.sl[ord[i]] THEN [s EXCEPT !.exc = "KeyError"]
    ELSE SymDetachLoop([s EXCEPT !.sl[ord[i]] = @ \ {l}], l, ord, i + 1)

\* a clear_distribution that leaves the lineage registered in its areas
SymClearDistributionStaysRegistered(s, l, ord) ==
    IF s.exc # "ok" THEN s
    ELSE [s EXCEPT !.d[l] = EmptyDistribution, !.ih[l] = {}, !.ia[l] = {}]

\* SymbiontLineage.clear_distribution; ord is the order of _infected_areas
SymClearDistribution(s, l, ord) ==
    IF s.exc # "ok" THEN s
    ELSE LET zeroed == [s EXCEPT !.d[l] = EmptyDistribution]
             detached == SymDetachLoop(zeroed, l, ord, 1)
         IN IF detached.exc # "ok" THEN detached
            ELSE [detached EXCEPT !.ih[l] = {}, !.ia[l] = {}]

\* the nested loops of update_distribution: hosts in dict order (horder),
\* areas in the order of host_system.areas; k counts the cells visited
RECURSIVE SymUpdateLoop(_, _, _, _, _)
SymUpdateLoop(s, l, other, horder, k) ==
    IF k >= Len(horder) * NumAreas \/ s.exc # "ok" THEN s
    ELSE LET h == horder[(k \div NumAreas) + 1]
             a == k % NumAreas
         IN IF s.d[other][h][a] = 1 /\ s.d[l][h][a] = 0
            THEN SymUpdateLoop(SymAddHostInArea(s, l, h, a, <<>>), l, other, horder, k + 1)
            ELSE SymUpdateLoop(s, l, other, horder, k + 1)

\* SymbiontLineage.update_distribution
SymUpdateDistribution(s, l, other, horder) ==
    IF s.exc # "ok" THEN s
    ELSE LET looped == SymUpdateLoop(s, l, other, horder, 0)
         IN IF looped.exc # "ok" THEN looped
            ELSE [looped EXCEPT !.ih[l] = @ \cup looped.ih[other],
                                !.ia[l] = @ \cup looped.ia[other]]

(***************************************************************************)
(* The public SymbiontLineage methods as actions, called on a live         *)
(* lineage (the driver reaches lineages through current_lineage_iter).     *)
(***************************************************************************)
add_host_in_area(l, h, area) ==
    /\ l \in current_lineages
    /\ \E ord \in Orders(current_areas[h]) :
           SymCommit(SymAddHostInArea(SymState, l, h, area, ord))
    /\ lastOp' = "add_host_in_area"
    /\ UNCHANGED <<hostVars, phyVars, host_order, modelVars, historyVars, replicateVars, callVars>>

remove_host_in_area(l, h, area) ==
    /\ l \in current_lineages
    /\ \E ord \in Orders(current_areas[h]) :
           SymCommit(SymRemoveHostInArea(SymState, l, h, area, ord))
    /\ lastOp' = "remove_host_in_area"
    /\ UNCHANGED <<hostVars, phyVars, host_order, modelVars, historyVars, replicateVars, callVars>>

sync_area_cache(l, a, search_all_hosts) ==
    /\ l \in current_lineages
    /\ SymCommit(SymSyncAreaCache(SymState, l, a, search_all_hosts))
    /\ lastOp' = "sync_area_cache"
    /\ UNCHANGED <<hostVars, phyVars, host_order, modelVars, historyVars, replicateVars, callVars>>

sync_host_cache(l, h, search_all_areas) ==
    /\ l \in current_lineages
    /\ SymCommit(SymSyncHostCache(SymState, l, h, search_all_areas))
    /\ lastOp' = "sync_host_cache"
    /\ UNCHANGED <<hostVars, phyVars, host_order, modelVars, historyVars, replicateVars, callVars>>

clear_distribution(l) ==
    /\ l \in current_lineages
    /\ \E ord \in Orders(infected_areas[l]) :
           SymCommit(SymClearDistribution(SymState, l, ord))
    /\ lastOp' = "clear_distribution"
    /\ UNCHANGED <<hostVars, phyVars, host_order, modelVars, historyVars, replicateVars, callVars>>

\* the orders the hosts of _host_area_distribution can be iterated in: every
\* lineage builds the dict from the same unchanged set, so the order is the
\* same in every loop of a run, whichever it is
HostOrders == IF host_order = <<>> THEN Orders(HostLineages) ELSE {host_order}

update_distribution(l, other) ==
    /\ l \in current_lineages
    /\ other \in current_lineages
    /\ \E horder \in HostOrders :
           /\ SymCommit(SymUpdateDistribution(SymState, l, other, horder))
           /\ host_order' = horder
    /\ lastOp' = "update_distribution"
    /\ UNCHANGED <<hostVars, phyVars, modelVars, historyVars, replicateVars, callVars>>

\* a split that retires the parent but never adds the daughters to the
\* live set
PhySplitLineageDropsDaughters(s, l, c1, c2, horder, iaord) ==
    LET copied == SymUpdateDistribution(SymUpdateDistribution(s, c1, l, horder),
                                        c2, l, horder)
        p0 == [s |-> copied, ext |-> [is_extant EXCEPT ![c1] = TRUE, ![c2] = TRUE],
               ch |-> child_nodes, cur |-> current_lineages]
    IN IF copied.exc # "ok" THEN p0
       ELSE IF l \notin p0.cur
            THEN [p0 EXCEPT !.ext[l] = FALSE, !.s.exc = "KeyError"]
       ELSE LET cleared == SymClearDistribution(copied, l, iaord)
                p1 == [p0 EXCEPT !.ext[l] = FALSE, !.cur = @ \ {l}, !.s = cleared]
            IN IF cleared.exc # "ok" THEN p1
               ELSE [p1 EXCEPT !.ch[l] = @ \o <<c1, c2>>]

(***************************************************************************)
(* SymbiontPhylogeny.  A handler works on a record p holding the           *)
(* symbiont-side record (s) and the phylogeny's own state (ext: is_extant, *)
(* ch: _child_nodes, cur: current_lineages).                               *)
(***************************************************************************)
\* SymbiontPhylogeny.split_lineage, with c1 and c2 the two lineages that
\* node_factory has just constructed; iaord is the iteration order of the
\* parent's _infected_areas
PhySplitLineage(s, l, c1, c2, horder, iaord) ==
    LET copied == SymUpdateDistribution(SymUpdateDistribution(s, c1, l, horder),
                                        c2, l, horder)
        p0 == [s |-> copied, ext |-> [is_extant EXCEPT ![c1] = TRUE, ![c2] = TRUE],
               ch |-> child_nodes, cur |-> current_lineages]
    IN IF copied.exc # "ok" THEN p0
       ELSE IF l \notin p0.cur
            THEN [p0 EXCEPT !.ext[l] = FALSE, !.s.exc = "KeyError"]
       ELSE LET cleared == SymClearDistribution(copied, l, iaord)
                p1 == [p0 EXCEPT !.ext[l] = FALSE, !.cur = @ \ {l}, !.s = cleared]
            IN IF cleared.exc # "ok" THEN p1
               ELSE [p1 EXCEPT !.ch[l] = @ \o <<c1, c2>>, !.cur = @ \cup {c1, c2}]

\* the parent of a node in the tree, None for a node that is nobody's child
parent_node(ch, l) ==
    IF \E q \in LineageIds : \E i \in 1..Len(ch[q]) : ch[q][i] = l
    THEN CHOOSE q \in LineageIds : \E i \in 1..Len(ch[q]) : ch[q][i] = l
    ELSE None

\* dendropy's Node.remove_child, as called by Tree.prune_subtree
remove_child(ch, q, l) == [ch EXCEPT ![q] = SelectSeq(@, LAMBDA c : c # l)]

\* an extinction that does not look at the number of live lineages first
PhyMakeLineageExtinctUnguarded(l) ==
    LET p0 == [s |-> SymState, ext |-> is_extant, ch |-> child_nodes,
               cur |-> current_lineages]
    IN IF l \notin p0.cur
       THEN [p0 EXCEPT !.ext[l] = FALSE, !.s.exc = "KeyError"]
       ELSE LET p1 == [p0 EXCEPT !.ext[l] = FALSE, !.cur = @ \ {l}]
            IN IF parent_node(p1.ch, l) = None
               THEN [p1 EXCEPT !.s.exc = "TypeError"]
               ELSE [p1 EXCEPT !.ch = remove_child(@, parent_node(p1.ch, l), l)]

\* an extinction that marks the lineage but leaves it in the live set
PhyMakeLineageExtinctStaysLive(l) ==
    LET p0 == [s |-> SymState, ext |-> is_extant, ch |-> child_nodes,
               cur |-> current_lineages]
    IN IF Cardinality(p0.cur) = 1
       THEN [p0 EXCEPT !.s.exc = "TotalExtinctionException"]
       ELSE IF l \notin p0.cur
            THEN [p0 EXCEPT !.ext[l] = FALSE, !.s.exc = "KeyError"]
       ELSE LET p1 == [p0 EXCEPT !.ext[l] = FALSE]
            IN IF parent_node(p1.ch, l) = None
               THEN [p1 EXCEPT !.s.exc = "TypeError"]
               ELSE [p1 EXCEPT !.ch = remove_child(@, parent_node(p1.ch, l), l)]

\* SymbiontPhylogeny._make_lineage_extinct_on_phylogeny
PhyMakeLineageExtinct(l) ==
    LET p0 == [s |-> SymState, ext |-> is_extant, ch |-> child_nodes,
               cur |-> current_lineages]
    IN IF Cardinality(p0.cur) = 1
       THEN [p0 EXCEPT !.s.exc = "TotalExtinctionException"]
       ELSE IF l \notin p0.cur
            THEN [p0 EXCEPT !.ext[l] = FALSE, !.s.exc = "KeyError"]
       ELSE LET p1 == [p0 EXCEPT !.ext[l] = FALSE, !.cur = @ \ {l}]
            IN IF parent_node(p1.ch, l) = None
               THEN [p1 EXCEPT !.s.exc = "TypeError"]
               ELSE [p1 EXCEPT !.ch = remove_child(@, parent_node(p1.ch, l), l)]

PhyCommit(p) ==
    /\ SymCommit(p.s)
    /\ is_extant' = p.ext
    /\ child_nodes' = p.ch
    /\ current_lineages' = p.cur

split_lineage(l) ==
    /\ l \in Created
    /\ lineage_indexer + 2 <= MaxLineages
    /\ \E iaord \in Orders(infected_areas[l]), horder \in HostOrders :
           /\ PhyCommit(PhySplitLineage(SymState, l, lineage_indexer, lineage_indexer + 1,
                                        horder, iaord))
           /\ host_order' = horder
    /\ lineage_indexer' = lineage_indexer + 2
    /\ lastOp' = "split_lineage"
    /\ UNCHANGED <<hostVars, modelVars, historyVars, replicateVars, callVars>>

extinguish_lineage(l) ==
    /\ l \in Created
    /\ PhyCommit(PhyMakeLineageExtinct(l))
    /\ lastOp' = "extinguish_lineage"
    /\ UNCHANGED <<hostVars, lineage_indexer, host_order, modelVars, historyVars, replicateVars, callVars>>

(***************************************************************************)
(* InphestModel and RateFunction: the configuration parser and writer.     *)
(*                                                                         *)
(* A Python scalar is a record of its type and its value: a number in      *)
(* hundredths (0.03 is 3), a string or a function object by an identifying *)
(* code.  A dictionary is a function whose domain is its set of keys.      *)
(***************************************************************************)
PyInt(v) == [type |-> "int", val |-> v]
PyFloat(v) == [type |-> "float", val |-> v]
PyStr(v) == [type |-> "str", val |-> v]
PyFunction(v) == [type |-> "function", val |-> v]
PyNone == [type |-> "NoneType", val |-> 0]

\* Python's ==  on scalars: numbers compare by value across int and float
PyEq(x, y) ==
    IF x.type \in {"int", "float"}
    THEN y.type \in {"int", "float"} /\ x.val = y.val
    ELSE x.type = y.type /\ x.val = y.val

\* the source texts of the default weight functions
LambdaOne00 == 1            \* "lambda **kwargs: 1.00"
LambdaOne0 == 2             \* "lambda **kwargs: 1.0"
\* str(f) of function object number i is the text numbered ReprBase + i
ReprBase == 100

\* float(x): a number becomes a float of the same value; the strings of the
\* model are source texts and reprs, none of them a numeral
float(x) ==
    IF x.type \in {"int", "float"} THEN [v |-> PyFloat(x.val), exc |-> "none"]
    ELSE IF x.type = "str" THEN [v |-> x, exc |-> "ValueError"]
    ELSE [v |-> x, exc |-> "TypeError"]

str(x) == IF x.type = "function" THEN PyStr(ReprBase + x.val) ELSE x

\* eval(source): the lambda sources compile, a function's repr does not, and
\* anything but a string is refused
eval(x) ==
    IF x.type # "str" THEN "TypeError"
    ELSE IF x.val >= ReprBase THEN "SyntaxError"
    ELSE "none"

EmptyDict == [k \in {} |-> 0]
\* d.pop(k, default): the value, and the dictionary left
Get(d, k, default) == IF k \in DOMAIN d THEN d[k] ELSE default
Without(d, k) == [x \in DOMAIN d \ {k} |-> d[x]]
\* d[k] = v, and setattr(self, k, v)
With(d, k, v) == [x \in DOMAIN d \cup {k} |-> IF x = k THEN v ELSE d[x]]

\* s.replace("-", "_") on the definition type tags
replace(s) ==
    CASE s = "fixed-value" -> "fixed_value"
      [] s = "lambda-definition" -> "lambda_definition"
      [] s = "function-object" -> "function_object"
      [] OTHER -> s

\* a compile_function that falls back to the fixed value for an
\* unrecognized definition type
compile_function_lenient(rf) ==
    LET t == replace(rf.definition_type)
        r == [rf EXCEPT !.definition_type = t]
    IN  IF t = "lambda_definition"
        THEN [rf |-> r, exc |-> eval(r.definition_content)]
        ELSE IF t = "function_object"
        THEN [rf |-> r, exc |-> "none"]
        ELSE LET f == float(r.definition_content)
             IN  IF f.exc # "none" THEN [rf |-> r, exc |-> f.exc]
                 ELSE [rf |-> [r EXCEPT !.definition_content = f.v], exc |-> "none"]

\* RateFunction.compile_function on the fields of a RateFunction
compile_function(rf) ==
    LET t == replace(rf.definition_type)
        r == [rf EXCEPT !.definition_type = t]
    IN  IF t = "fixed_value"
        THEN LET f == float(r.definition_content)
             IN  IF f.exc # "none" THEN [rf |-> r, exc |-> f.exc]
                 ELSE [rf |-> [r EXCEPT !.definition_content = f.v], exc |-> "none"]
        ELSE IF t = "lambda_definition"
        THEN [rf |-> r, exc |-> eval(r.definition_content)]
        ELSE IF t = "function_object"
        THEN [rf |-> r, exc |-> "none"]
        ELSE [rf |-> r, exc |-> "ValueError"]

\* RateFunction(definition_type, definition_content, description)
RateFunction(definition_type, definition_content, description) ==
    compile_function([definition_type |-> definition_type,
                      definition_content |-> definition_content,
                      description |-> description])

\* RateFunction.from_definition_dict / RateFunction.parse_definition
from_definition_dict(rate_function_d) ==
    LET blank == [definition_type |-> "", definition_content |-> PyStr(0),
                  description |-> ""]
    IN  IF "definition_type" \notin DOMAIN rate_function_d
           \/ "definition" \notin DOMAIN rate_function_d
        THEN [rf |-> blank, exc |-> "KeyError"]
        ELSE LET rf == [definition_type |-> replace(rate_function_d["definition_type"]),
                        definition_content |-> rate_function_d["definition"],
                        description |-> Get(rate_function_d, "description", "")]
             IN  IF DOMAIN rate_function_d
                        \ {"definition_type", "definition", "description"} # {}
                 THEN [rf |-> rf, exc |-> "TypeError"]
                 ELSE compile_function(rf)

\* The keyword contexts a weight function is called with, and the value a
\* lambda source text returns: the default texts are the constant 1.0, the
\* text numbered 10 + i is the constant 1.5 + i / 100, for every context.
Contexts == {[k \in {} |-> 0], [lineage |-> 0], [lineage |-> 1, host |-> 1]}

LambdaValue(code, kwargs) ==
    IF code \in {LambdaOne00, LambdaOne0} THEN PyFloat(100) ELSE PyFloat(140 + code)

\* RateFunction.__call__(**kwargs): the compiled _compute_rate is the fixed
\* value, the evaluated lambda, or the definition content itself (function
\* object number i returns 2.0 + i / 100; a string is not callable)
call(rf, kwargs) ==
    IF rf.definition_type = "fixed_value"
    THEN [v |-> rf.definition_content, exc |-> "none"]
    ELSE IF rf.definition_type = "lambda_definition"
    THEN [v |-> LambdaValue(rf.definition_content.val, kwargs), exc |-> "none"]
    ELSE IF rf.definition_content.type = "function"
    THEN [v |-> PyFloat(200 + rf.definition_content.val), exc |-> "none"]
    ELSE [v |-> PyNone, exc |-> "TypeError"]

\* RateFunction.__init__ without arguments (cls() in from_definition_dict):
\* every attribute is None
NewRateFunction ==
    [definition_type |-> "None", definition_content |-> PyNone,
     description |-> "None", compute_rate |-> "None"]

\* the RateFunction object a compile_function outcome c leaves:
\* _compute_rate is assigned in the three recognized branches only, and
\* after float() succeeded in the first
RateFunctionObject(c) ==
    [definition_type |-> c.rf.definition_type,
     definition_content |-> c.rf.definition_content,
     description |-> c.rf.description,
     compute_rate |-> IF c.exc = "none" THEN "callable" ELSE "None"]

\* RateFunction.from_definition_dict(rate_function_definition)
rate_function_from_definition_dict ==
    /\ lastOp = "init"
    /\ lastOp' = "from_definition_dict"
    /\ LET c == from_definition_dict(rate_function_definition)
       IN  /\ rate_function' = RateFunctionObject(c)
           /\ result' = IF c.exc = "none" THEN "ok" ELSE c.exc
    /\ UNCHANGED <<hostVars, symVars, phyVars, host_order, modelVars, historyVars,
                   replicateVars, rate_function_definition, arguments, returned>>

\* RateFunction(definition_type, definition_content, description) with the
\* values of the dictionary: compile_function is called when a content is given
rate_function_init ==
    /\ lastOp = "init"
    /\ {"definition_type", "definition"} \subseteq DOMAIN rate_function_definition
    /\ lastOp' = "RateFunction"
    /\ LET c == RateFunction(rate_function_definition["definition_type"],
                             rate_function_definition["definition"],
                             Get(rate_function_definition, "description", "None"))
       IN  /\ rate_function' = RateFunctionObject(c)
           /\ result' = IF c.exc = "none" THEN "ok" ELSE c.exc
    /\ UNCHANGED <<hostVars, symVars, phyVars, host_order, modelVars, historyVars,
                   replicateVars, rate_function_definition, arguments, returned>>

\* rate_function(**kwargs), on the RateFunction the construction returned
rate_function_call(kwargs) ==
    /\ lastOp \in {"from_definition_dict", "RateFunction", "__call__"}
    /\ rate_function.compute_rate # "None"
    /\ lastOp' = "__call__"
    /\ arguments' = <<kwargs>>
    /\ LET c == call(rate_function, kwargs)
       IN  /\ returned' = c.v
           /\ result' = IF c.exc = "none" THEN "ok" ELSE c.exc
    /\ UNCHANGED <<hostVars, symVars, phyVars, host_order, modelVars, historyVars,
                   replicateVars, rate_function_definition, rate_function>>

\* RateFunction.as_definition
as_definition(rf) ==
    [definition_type |-> rf.definition_type,
     definition |-> IF rf.definition_type = "function_object"
                    THEN str(rf.definition_content)
                    ELSE rf.definition_content,
     description |-> rf.description]

(***************************************************************************)
(* The six event channels as parse_definition reads them: the sub-block,   *)
(* the key of the mean rate (also the attribute it is stored in), the key  *)
(* of the weight definition, the attribute of the weight RateFunction, and *)
(* the defaults.                                                           *)
(***************************************************************************)
Channels == {"birth", "death", "host_gain", "host_loss", "area_gain", "area_loss"}

Channel ==
    [birth |->
        [block |-> "diversification",
         rate |-> "mean_symbiont_lineage_birth_rate",
         weight |-> "symbiont_lineage_birth_weight",
         function |-> "symbiont_lineage_birth_weight_function",
         default_rate |-> PyFloat(3),
         default_content |-> PyStr(LambdaOne00), default_description |-> "fixed: 1.00"],
     death |->
        [block |-> "diversification",
         rate |-> "mean_symbiont_lineage_death_rate",
         weight |-> "symbiont_lineage_death_weight",
         function |-> "symbiont_lineage_death_weight_function",
         default_rate |-> PyFloat(0),
         default_content |-> PyStr(LambdaOne00), default_description |-> "fixed: 1.00"],
     host_gain |->
        [block |-> "anagenetic_host_assemblage_evolution",
         rate |-> "mean_symbiont_lineage_host_gain_rate",
         weight |-> "symbiont_lineage_host_gain_weight",
         function |-> "symbiont_lineage_host_gain_weight_function",
         default_rate |-> PyFloat(3),
         default_content |-> PyStr(LambdaOne00), default_description |-> "fixed: 1.00"],
     host_loss |->
        [block |-> "anagenetic_host_assemblage_evolution",
         rate |-> "mean_symbiont_lineage_host_loss_rate",
         weight |-> "symbiont_lineage_host_loss_weight",
         function |-> "symbiont_lineage_host_loss_weight_function",
         default_rate |-> PyFloat(0),
         default_content |-> PyStr(LambdaOne0), default_description |-> "fixed: 1.0"],
     area_gain |->
        [block |-> "anagenetic_geographical_range_evolution",
         rate |-> "mean_symbiont_lineage_area_gain_rate",
         weight |-> "symbiont_lineage_area_gain_weight",
         function |-> "symbiont_lineage_area_gain_weight_function",
         default_rate |-> PyFloat(3),
         default_content |-> PyStr(LambdaOne00), default_description |-> "fixed: 1.00"],
     area_loss |->
        [block |-> "anagenetic_geographical_range_evolution",
         rate |-> "mean_symbiont_lineage_area_loss_rate",
         weight |-> "symbiont_lineage_area_loss_weight",
         function |-> "symbiont_lineage_area_loss_weight_function",
         default_rate |-> PyFloat(0),
         default_content |-> PyStr(LambdaOne0), default_description |-> "fixed: 1.0"]]

\* the four cladogenetic weights of each cladogenetic sub-block: key, attribute, default
HostCladogenesis ==
    << [key |-> "sympatric_subset_speciation_weight",
        attr |-> "host_cladogenesis_sympatric_subset_speciation_weight",
        default |-> PyFloat(100)],
       [key |-> "single_host_vicariance_speciation_weight",
        attr |-> "host_cladogenesis_single_host_vicariance_speciation_weight",
        default |-> PyFloat(100)],
       [key |-> "widespread_vicariance_speciation_weight",
        attr |-> "host_cladogenesis_widespread_vicariance_speciation_weight",
        default |-> PyFloat(100)],
       [key |-> "founder_event_speciation_weight",
        attr |-> "host_cladogenesis_founder_event_speciation_weight",
        default |-> PyFloat(0)] >>

SymbiontCladogenesis ==
    << [key |-> "sympatric_subset_speciation_weight",
        attr |-> "symbiont_cladogenesis_sympatric_subset_speciation_weight",
        default |-> PyFloat(100)],
       [key |-> "single_area_vicariance_speciation_weight",
        attr |-> "symbiont_cladogenesis_single_area_vicariance_speciation_weight",
        default |-> PyFloat(100)],
       [key |-> "widespread_vicariance_speciation_weight",
        attr |-> "symbiont_cladogenesis_widespread_vicariance_speciation_weight",
        default |-> PyFloat(100)],
       [key |-> "founder_event_speciation_weight",
        attr |-> "symbiont_cladogenesis_founder_event_speciation_weight",
        default |-> PyFloat(0)] >>

(***************************************************************************)
(* InphestModel.parse_definition.  The parse state is the attributes set   *)
(* so far (m), the dictionary being consumed (d) and the exception raised  *)
(* (exc); once an exception is raised nothing further is assigned.         *)
(***************************************************************************)
ParseChannelWithoutDefaultRate(st, c) ==
    IF st.exc # "none" THEN st
    ELSE LET ch == Channel[c]
             r == RateFunction("lambda_definition", ch.default_content,
                               ch.default_description)
         IN  [m |-> With(With(st.m, ch.rate, Get(st.d, ch.rate, PyFloat(0))),
                         ch.function, r.rf),
              d |-> Without(Without(st.d, ch.rate), ch.weight), exc |-> r.exc]

\* one channel of a sub-block: the mean rate is popped with its default, the
\* weight definition is compiled if present, else the default is constructed
ParseChannel(st, c) ==
    IF st.exc # "none" THEN st
    ELSE LET ch == Channel[c]
             m1 == With(st.m, ch.rate, Get(st.d, ch.rate, ch.default_rate))
             d1 == Without(st.d, ch.rate)
         IN  IF ch.weight \in DOMAIN d1
             THEN LET r == from_definition_dict(d1[ch.weight])
                  IN  IF r.exc # "none"
                      THEN [m |-> m1, d |-> Without(d1, ch.weight), exc |-> r.exc]
                      ELSE [m |-> With(m1, ch.function, r.rf),
                            d |-> Without(d1, ch.weight), exc |-> "none"]
             ELSE LET r == RateFunction("lambda_definition", ch.default_content,
                                        ch.default_description)
                  IN  [m |-> With(m1, ch.function, r.rf), d |-> d1, exc |-> r.exc]

\* model_id and host_to_symbiont_time_scale_factor
ParseIdentification(st) ==
    LET m1 == With(st.m, "model_id", Get(st.d, "model_id", "Model1"))
        d1 == Without(st.d, "model_id")
        f == float(Get(d1, "host_to_symbiont_time_scale_factor", PyFloat(100)))
        d2 == Without(d1, "host_to_symbiont_time_scale_factor")
    IN  IF f.exc # "none" THEN [m |-> m1, d |-> d2, exc |-> f.exc]
        ELSE [m |-> With(m1, "host_to_symbiont_time_scale_factor", f.v),
              d |-> d2, exc |-> "none"]

\* the diversification sub-block: what is left of it is not looked at
ParseDiversification(st) ==
    IF st.exc # "none" THEN st
    ELSE LET diversification_d == Get(st.d, "diversification", EmptyDict)
             b == ParseChannel(ParseChannel(
                      [m |-> st.m, d |-> diversification_d, exc |-> "none"],
                      "birth"), "death")
         IN  [m |-> b.m, d |-> Without(st.d, "diversification"), exc |-> b.exc]

\* the anagenetic host assemblage sub-block, with its check of what is left
ParseAnageneticHostAssemblage(st) ==
    IF st.exc # "none" THEN st
    ELSE LET anagenetic_host_assemblage_evolution_d ==
                 Get(st.d, "anagenetic_host_assemblage_evolution", EmptyDict)
             b == ParseChannel(ParseChannel(
                      [m |-> st.m, d |-> anagenetic_host_assemblage_evolution_d,
                       exc |-> "none"],
                      "host_gain"), "host_loss")
         IN  [m |-> b.m,
              d |-> Without(st.d, "anagenetic_host_assemblage_evolution"),
              exc |-> IF b.exc = "none" /\ DOMAIN b.d # {} THEN "TypeError" ELSE b.exc]

\* the weights of a cladogenetic sub-block, each popped and passed to float()
RECURSIVE ParseCladogeneticWeights(_, _, _)
ParseCladogeneticWeights(st, weights, i) ==
    IF i > Len(weights) \/ st.exc # "none" THEN st
    ELSE LET w == weights[i]
             f == float(Get(st.d, w.key, w.default))
             d1 == Without(st.d, w.key)
         IN  IF f.exc # "none" THEN [m |-> st.m, d |-> d1, exc |-> f.exc]
             ELSE ParseCladogeneticWeights(
                      [m |-> With(st.m, w.attr, f.v), d |-> d1, exc |-> "none"],
                      weights, i + 1)

\* a cladogenetic sub-block, with its check of what is left
ParseCladogenetic(st, block, weights) ==
    IF st.exc # "none" THEN st
    ELSE LET b == ParseCladogeneticWeights(
                      [m |-> st.m, d |-> Get(st.d, block, EmptyDict), exc |-> "none"],
                      weights, 1)
         IN  [m |-> b.m, d |-> Without(st.d, block),
              exc |-> IF b.exc = "none" /\ DOMAIN b.d # {} THEN "TypeError" ELSE b.exc]

\* the anagenetic geographical range sub-block: it is popped from the
\* definition for the area gain and popped a second time for the area loss,
\* and the check of what is left looks at the second dictionary
ParseAnageneticGeographicalRange(st) ==
    IF st.exc # "none" THEN st
    ELSE LET gain_d == Get(st.d, "anagenetic_geographical_range_evolution", EmptyDict)
             rest == Without(st.d, "anagenetic_geographical_range_evolution")
             g == ParseChannel([m |-> st.m, d |-> gain_d, exc |-> "none"], "area_gain")
             loss_d == Get(rest, "anagenetic_geographical_range_evolution", EmptyDict)
             b == ParseChannel([m |-> g.m, d |-> loss_d, exc |-> g.exc], "area_loss")
         IN  [m |-> b.m, d |-> rest,
              exc |-> IF b.exc = "none" /\ DOMAIN b.d # {} THEN "TypeError" ELSE b.exc]

\* the final check of the keys left at the top level
ParseLeftover(st) ==
    IF st.exc = "none" /\ DOMAIN st.d # {} THEN [st EXCEPT !.exc = "TypeError"] ELSE st

\* model_definition = {} if it is None, else a copy of it
AsDefinition(definition) == IF definition = PyNone THEN EmptyDict ELSE definition

\* InphestModel.parse_definition on an object with attributes self
InphestModelParseDefinition(self, definition) ==
    ParseLeftover(
      ParseCladogenetic(
        ParseAnageneticGeographicalRange(
          ParseCladogenetic(
            ParseAnageneticHostAssemblage(
              ParseDiversification(
                ParseIdentification([m |-> self, d |-> AsDefinition(definition),
                                     exc |-> "none"]))),
            "cladogenetic_host_assemblage_evolution", HostCladogenesis)),
        "cladogenetic_geographical_range_evolution", SymbiontCladogenesis))

(***************************************************************************)
(* InphestModel.write_model and the *_as_definition methods.               *)
(***************************************************************************)
diversification_as_definition(self) ==
    [mean_symbiont_lineage_birth_rate |-> self["mean_symbiont_lineage_birth_rate"],
     lineage_birth_rate |->
         as_definition(self["symbiont_lineage_birth_weight_function"]),
     mean_symbiont_lineage_death_rate |-> self["mean_symbiont_lineage_death_rate"],
     lineage_death_rate |->
         as_definition(self["symbiont_lineage_death_weight_function"])]

anagenetic_host_assemblage_evolution_as_definition(self) ==
    [mean_symbiont_lineage_host_gain_rate |-> self["mean_symbiont_lineage_host_gain_rate"],
     symbiont_lineage_host_gain_weight |->
         as_definition(self["symbiont_lineage_host_gain_weight_function"]),
     mean_symbiont_lineage_host_loss_rate |-> self["mean_symbiont_lineage_host_loss_rate"],
     symbiont_lineage_host_loss_weight |->
         as_definition(self["symbiont_lineage_host_loss_weight_function"])]

cladogenetic_host_assemblage_evolution_as_definition(self) ==
    [sympatric_subset_speciation_weight |->
         self["host_cladogenesis_sympatric_subset_speciation_weight"],
     single_host_vicariance_speciation_weight |->
         self["host_cladogenesis_single_host_vicariance_speciation_weight"],
     widespread_vicariance_speciation_weight |->
         self["host_cladogenesis_widespread_vicariance_speciation_weight"],
     founder_event_speciation_weight |->
         self["host_cladogenesis_founder_event_speciation_weight"]]

anagenetic_geographical_range_evolution_as_definition(self) ==
    [mean_symbiont_lineage_area_gain_rate |-> self["mean_symbiont_lineage_area_gain_rate"],
     symbiont_lineage_area_gain_weight |->
         as_definition(self["symbiont_lineage_area_gain_weight_function"]),
     mean_symbiont_lineage_area_loss_rate |-> self["mean_symbiont_lineage_area_loss_rate"],
     symbiont_lineage_area_loss_weight |->
         as_definition(self["symbiont_lineage_area_loss_weight_function"])]

cladogenetic_geographical_range_evolution_as_definition(self) ==
    [sympatric_subset_speciation_weight |->
         self["symbiont_cladogenesis_sympatric_subset_speciation_weight"],
     single_area_vicariance_speciation_weight |->
         self["symbiont_cladogenesis_single_area_vicariance_speciation_weight"],
     widespread_vicariance_speciation_weight |->
         self["symbiont_cladogenesis_widespread_vicariance_speciation_weight"],
     founder_event_speciation_weight |->
         self["symbiont_cladogenesis_founder_event_speciation_weight"]]

\* the attributes parse_definition assigns, all of them read by write_model
ModelAttributes ==
    {"model_id", "host_to_symbiont_time_scale_factor"}
        \cup {Channel[c].rate : c \in Channels}
        \cup {Channel[c].function : c \in Channels}
        \cup {HostCladogenesis[i].attr : i \in DOMAIN HostCladogenesis}
        \cup {SymbiontCladogenesis[i].attr : i \in DOMAIN SymbiontCladogenesis}

\* json.dump accepts numbers and strings; a function object is not serializable
JsonSerializable(self) ==
    \A c \in Channels : self[Channel[c].rate].type \in {"int", "float", "str"}

\* InphestModel.write_model: the structure a reader of the output gets back.
\* An attribute that was never assigned raises before anything is written.
WriteModel(self) ==
    IF ~(ModelAttributes \subseteq DOMAIN self)
    THEN [out |-> EmptyDict, exc |-> "AttributeError"]
    ELSE IF ~JsonSerializable(self)
    THEN [out |-> EmptyDict, exc |-> "TypeError"]
    ELSE [out |->
            [model_id |-> self["model_id"],
             host_to_symbiont_time_scale_factor |->
                 self["host_to_symbiont_time_scale_factor"],
             diversification |-> diversification_as_definition(self),
             anagenetic_host_assemblage_evolution |->
                 anagenetic_host_assemblage_evolution_as_definition(self),
             cladogenetic_host_assemblage_evolution |->
                 cladogenetic_host_assemblage_evolution_as_definition(self),
             anagenetic_geographical_range_evolution |->
                 anagenetic_geographical_range_evolution_as_definition(self),
             cladogenetic_geographical_range_evolution |->
                 cladogenetic_geographical_range_evolution_as_definition(self)],
          exc |-> "none"]

\* model.parse_definition(model_definition)
parse_definition ==
    /\ LET r == InphestModelParseDefinition(model, model_definition)
       IN  /\ model' = r.m
           /\ result' = IF r.exc = "none" THEN "ok" ELSE r.exc
    /\ lastOp' = "parse_definition"
    /\ UNCHANGED <<hostVars, symVars, phyVars, host_order, historyVars, replicateVars,
                   callVars, model_definition, written, reparsed>>

\* model.write_model(out)
write_model ==
    /\ LET r == WriteModel(model)
       IN  /\ written' = IF r.exc = "none" THEN r.out ELSE written
           /\ result' = IF r.exc = "none" THEN "ok" ELSE r.exc
    /\ lastOp' = "write_model"
    /\ UNCHANGED <<hostVars, symVars, phyVars, host_order, historyVars, replicateVars,
                   callVars, model_definition, model, reparsed>>

\* a second InphestModel parses the structure that was written
parse_written ==
    /\ DOMAIN written # {}
    /\ LET r == InphestModelParseDefinition(reparsed, written)
       IN  /\ reparsed' = r.m
           /\ result' = IF r.exc = "none" THEN "ok" ELSE r.exc
    /\ lastOp' = "parse_written"
    /\ UNCHANGED <<hostVars, symVars, phyVars, host_order, historyVars, replicateVars,
                   callVars, model_definition, model, written>>

(***************************************************************************)
(* The definitions handed to parse_definition: any subset of the six       *)
(* channels supplied (mean rate and weight definition, with values that    *)
(* differ per channel and from every default), the weight definitions of   *)
(* one kind, the cladogenetic weights and the identification supplied or   *)
(* not, and at most one unrecognized key at the top level or in one of     *)
(* the five sub-blocks.                                                    *)
(***************************************************************************)
Blocks ==
    {"diversification", "anagenetic_host_assemblage_evolution",
     "cladogenetic_host_assemblage_evolution",
     "anagenetic_geographical_range_evolution",
     "cladogenetic_geographical_range_evolution"}

WeightKinds ==
    {"fixed_value", "fixed-value", "lambda_definition", "function_object",
     "map", "extra_keyword"}

ChannelIndex ==
    [birth |-> 1, death |-> 2, host_gain |-> 3, host_loss |-> 4,
     area_gain |-> 5, area_loss |-> 6]

SuppliedRate(c) == PyFloat(10 + ChannelIndex[c])

SuppliedWeight(c, kind) ==
    CASE kind = "fixed_value" ->
             [definition_type |-> "fixed_value",
              definition |-> PyInt(100 * (1 + ChannelIndex[c])),
              description |-> "supplied"]
      [] kind = "fixed-value" ->
             [definition_type |-> "fixed-value",
              definition |-> PyFloat(150 + ChannelIndex[c])]
      [] kind = "lambda_definition" ->
             [definition_type |-> "lambda_definition",
              definition |-> PyStr(10 + ChannelIndex[c]),
              description |-> "supplied"]
      [] kind = "function_object" ->
             [definition_type |-> "function_object",
              definition |-> PyFunction(ChannelIndex[c]),
              description |-> "supplied"]
      [] kind = "map" ->
             [definition_type |-> "map",
              definition |-> PyFloat(150 + ChannelIndex[c]),
              description |-> "supplied"]
      [] OTHER ->
             [definition_type |-> "fixed_value",
              definition |-> PyFloat(150 + ChannelIndex[c]),
              description |-> "supplied",
              units |-> "per lineage"]

UnknownKey == "unsupported_keyword"

\* a sub-block of channels
ChannelBlock(b, populated, kind, unknown) ==
    LET cs == {c \in populated : Channel[c].block = b}
        keys == {Channel[c].rate : c \in cs} \cup {Channel[c].weight : c \in cs}
                    \cup (IF unknown = b THEN {UnknownKey} ELSE {})
    IN  [k \in keys |->
            IF k = UnknownKey THEN PyInt(100)
            ELSE IF \E c \in cs : Channel[c].rate = k
            THEN SuppliedRate(CHOOSE c \in cs : Channel[c].rate = k)
            ELSE SuppliedWeight(CHOOSE c \in cs : Channel[c].weight = k, kind)]

\* a sub-block of cladogenetic weights, supplied as integers
CladogeneticBlock(b, weights, supplied, unknown) ==
    LET keys == (IF supplied THEN {weights[i].key : i \in DOMAIN weights} ELSE {})
                    \cup (IF unknown = b THEN {UnknownKey} ELSE {})
    IN  [k \in keys |->
            IF k = UnknownKey THEN PyInt(100)
            ELSE PyInt(100 + 100 * (CHOOSE i \in DOMAIN weights : weights[i].key = k))]

Definition(populated, kind, unknown, cladogenetic, identified) ==
    LET block(b) ==
            IF b = "cladogenetic_host_assemblage_evolution"
            THEN CladogeneticBlock(b, HostCladogenesis, cladogenetic, unknown)
            ELSE IF b = "cladogenetic_geographical_range_evolution"
            THEN CladogeneticBlock(b, SymbiontCladogenesis, cladogenetic, unknown)
            ELSE ChannelBlock(b, populated, kind, unknown)
        keys == {b \in Blocks : DOMAIN block(b) # {}}
                    \cup (IF identified
                          THEN {"model_id", "host_to_symbiont_time_scale_factor"}
                          ELSE {})
                    \cup (IF unknown = "top" THEN {UnknownKey} ELSE {})
    IN  [k \in keys |->
            IF k \in Blocks THEN block(k)
            ELSE IF k = "model_id" THEN "Model2"
            ELSE IF k = "host_to_symbiont_time_scale_factor" THEN PyInt(200)
            ELSE PyInt(100)]

(***************************************************************************)
(* HostHistory: the lineage definitions and the host events, and           *)
(* HostHistory.validate.  An event is a record of its event_time,          *)
(* lineage_id, event_type, event_subtype and area_idx (None for a          *)
(* cladogenesis); a distribution bitstring is a sequence of "0"/"1".       *)
(***************************************************************************)
HostEvent(event_time, lineage_id, kind) ==
    [event_time |-> event_time, lineage_id |-> lineage_id,
     event_type |-> kind.event_type, event_subtype |-> kind.event_subtype,
     area_idx |-> kind.area_idx]

\* the events of the history the replicates are built from: lineage 1 gains
\* the area of index 1 at time 1
HistoryEvents ==
    << HostEvent(1, 1, [event_type |-> "anagenesis", event_subtype |-> "area_gain",
                        area_idx |-> 1]) >>

lineage_end_distribution_bitstring(h) ==
    IF h = 1
    THEN [lineage_start_distribution_bitstring(h) EXCEPT ![2] = "1"]
    ELSE lineage_start_distribution_bitstring(h)

\* the definition of host lineage h in the history the replicates are built from
LineageDefinition(h) ==
    [lineage_start_time |-> lineage_start_time(h),
     lineage_end_time |-> lineage_end_time(h),
     lineage_start_distribution_bitstring |-> lineage_start_distribution_bitstring(h),
     lineage_end_distribution_bitstring |-> lineage_end_distribution_bitstring(h),
     is_extant_leaf |-> TRUE]

\* lineage_events[lineage_id]: the events of one lineage, in the order of self.events
lineage_events(evs, lineage_id) ==
    SelectSeq(evs, LAMBDA e : e.lineage_id = lineage_id)

\* list.sort(key=lambda x: x.event_time): a stable sort by event_time
RECURSIVE sort(_)
sort(list) ==
    IF Len(list) <= 1 THEN list
    ELSE LET init == sort(SubSeq(list, 1, Len(list) - 1))
             e == list[Len(list)]
             before == SelectSeq(init, LAMBDA x : x.event_time <= e.event_time)
             after == SelectSeq(init, LAMBDA x : x.event_time > e.event_time)
         IN  before \o <<e>> \o after

\* The list validate iterates for a lineage.  The sort at the top of the
\* loop body is applied to lineage_events[event.lineage_id], where event is
\* the variable of an earlier loop: in the first iteration the last event of
\* self.events, afterwards the last event of the lineage just replayed.  So
\* only the list of the lineage of the last event is sorted before it is
\* iterated.
iterated_events(evs, lineage_id) ==
    IF evs[Len(evs)].lineage_id = lineage_id
    THEN sort(lineage_events(evs, lineage_id))
    ELSE lineage_events(evs, lineage_id)

\* distribution_bitlist after an event passed its assertion: the statements
\* that follow the assertions compare the entry with "1" / "0" and assign
\* nothing
distribution_after(distribution_bitlist, event) == distribution_bitlist

\* the assertions on one event
event_passes(distribution_bitlist, event, definition) ==
    /\ is_in_range(event.event_time, definition.lineage_start_time,
                   definition.lineage_end_time)
    /\ IF event.event_type = "anagenesis" /\ event.event_subtype = "area_gain"
       THEN distribution_bitlist[event.area_idx + 1] = "0"
       ELSE IF event.event_type = "anagenesis" /\ event.event_subtype = "area_loss"
       THEN distribution_bitlist[event.area_idx + 1] = "1"
       ELSE IF event.event_type = "cladogenesis"
       THEN distribution_bitlist = definition.lineage_start_distribution_bitstring
       ELSE TRUE

\* the inner loop of validate over the events of one lineage, from event i
RECURSIVE ValidateLineage(_, _, _, _)
ValidateLineage(distribution_bitlist, list, i, definition) ==
    IF i > Len(list) THEN "none"
    ELSE IF ~event_passes(distribution_bitlist, list[i], definition)
    THEN "AssertionError"
    ELSE ValidateLineage(distribution_after(distribution_bitlist, list[i]),
                         list, i + 1, definition)

\* HostHistory.validate: every failure is an AssertionError, so the order in
\* which the lineages are replayed does not show in the outcome
Validate(evs, lins) ==
    IF \E lineage_id \in {evs[i].lineage_id : i \in DOMAIN evs} :
           ValidateLineage(lins[lineage_id].lineage_start_distribution_bitstring,
                           iterated_events(evs, lineage_id), 1, lins[lineage_id])
               # "none"
    THEN "AssertionError"
    ELSE "none"

\* host_history.validate(): it changes nothing of the history
validate ==
    /\ result' = (IF Validate(events, lineages) = "none" THEN "ok"
                  ELSE Validate(events, lineages))
    /\ lastOp' = "validate"
    /\ UNCHANGED <<hostVars, symVars, phyVars, host_order, modelVars, historyVars, replicateVars, callVars>>

\* the loop of compile over the nodes of the tree (tr: their keys): every key
\* is asserted to be a lineage id, and the end distribution bitstrings of the
\* extant leaves are asserted to have one width
NodesPass(lins, tr) ==
    /\ tr \subseteq DOMAIN lins
    /\ \A k1, k2 \in {k \in tr \cap DOMAIN lins : lins[k].is_extant_leaf} :
           Len(lins[k1].lineage_end_distribution_bitstring)
               = Len(lins[k2].lineage_end_distribution_bitstring)

\* a sort that puts the last event of the list before the earlier events of
\* the same time
sort_unstable(list) ==
    IF Len(list) <= 1 THEN list
    ELSE LET init == sort(SubSeq(list, 1, Len(list) - 1))
             e == list[Len(list)]
             before == SelectSeq(init, LAMBDA x : x.event_time < e.event_time)
             after == SelectSeq(init, LAMBDA x : x.event_time >= e.event_time)
         IN  before \o <<e>> \o after

\* self.events.sort(key=lambda x: x.event_time, reverse=False)
sort_events(list) == sort(list)

\* HostHistory.compile(tree, start_time, end_time) on the history hh with the
\* events evs and the lineage map lins: the history and the event list it
\* leaves, and the exception raised
HostHistoryCompile(hh, evs, lins, tr, st, en) ==
    LET with_tree == [tree |-> tr, start_time |-> hh.start_time,
                      end_time |-> hh.end_time]
    IN  IF ~NodesPass(lins, tr)
        THEN [host_history |-> with_tree, events |-> evs, exc |-> "AssertionError"]
        ELSE LET sorted == sort_events(evs)
             IN  [host_history |-> [with_tree EXCEPT !.start_time = st, !.end_time = en],
                  events |-> sorted,
                  exc |-> IF \E i \in DOMAIN sorted :
                                 \/ sorted[i].event_time < st
                                 \/ sorted[i].event_time > en
                          THEN "AssertionError" ELSE "ok"]

\* host_history.compile(tree, start_time, end_time), called by the parsers
\* once on every history they have filled
compile(tr, st, en) ==
    /\ "tree" \notin DOMAIN host_history
    /\ LET compiled == HostHistoryCompile(host_history, events, lineages, tr, st, en)
       IN  /\ host_history' = compiled.host_history
           /\ events' = compiled.events
           /\ result' = compiled.exc
    /\ lastOp' = "compile"
    /\ UNCHANGED <<hostVars, symVars, phyVars, host_order, modelVars, lineages,
                   replicateVars, callVars>>

(***************************************************************************)
(* HostSystem construction.  An object is known by its identity, a number: *)
(* the Area objects of replicate 1 are 0..NumAreas-1 and its HostLineage   *)
(* objects 1..NumHosts (their state is in the variables host_lineages,     *)
(* symbiont_lineages, extancy and current_areas); every other object has   *)
(* its state in other_objects.                                             *)
(***************************************************************************)
Replicates == {1, 2}

generate_areas_cached(first, lins) ==
    [areas |-> [i \in 1..NumAreas |-> [id |-> i - 1, area_idx |-> i - 1]],
     exc |-> "none"]

\* a generate_areas that takes the width of the first start bitstring and
\* asserts nothing
generate_areas_unchecked(first, lins) ==
    LET num_areas == Len(lins[CHOOSE h \in DOMAIN lins : TRUE]
                             .lineage_start_distribution_bitstring)
    IN  [areas |-> [i \in 1..num_areas |->
                       [id |-> first + (i - 1), area_idx |-> i - 1]],
         exc |-> "none"]

\* HostHistory.generate_areas: the width is asserted to be common to every
\* start and end bitstring, then one new Area object is made per index
\* (first is the identity of the first object this call allocates)
generate_areas(first, lins) ==
    LET num_areas == Len(lins[CHOOSE h \in DOMAIN lins : TRUE]
                             .lineage_start_distribution_bitstring)
    IN  IF \E h \in DOMAIN lins :
               \/ Len(lins[h].lineage_start_distribution_bitstring) # num_areas
               \/ Len(lins[h].lineage_end_distribution_bitstring) # num_areas
        THEN [areas |-> <<>>, exc |-> "AssertionError"]
        ELSE [areas |-> [i \in 1..num_areas |->
                            [id |-> first + (i - 1), area_idx |-> i - 1]],
              exc |-> "none"]

\* HostSystem.compile for replicate r: its own Area objects, one new
\* HostLineage object per lineage definition, and a rescaled copy of the
\* event list
HostSystemCompile(r, evs, lins) ==
    [areas |-> generate_areas((r - 1) * NumAreas, lins).areas,
     host_lineages_by_id |-> [h \in DOMAIN lins |-> (r - 1) * NumHosts + h],
     host_events |->
         [i \in DOMAIN evs |->
             [evs[i] EXCEPT !.event_time = @ * host_to_symbiont_time_scale_factor]]]

\* the state of an Area object / a HostLineage object, by identity
area_host_lineages(a) ==
    IF a \in Areas THEN host_lineages[a] ELSE other_objects.host_lineages[a]
area_symbiont_lineages(a) ==
    IF a \in Areas THEN symbiont_lineages[a] ELSE other_objects.symbiont_lineages[a]
host_extancy(h) ==
    IF h \in HostLineages THEN extancy[h] ELSE other_objects.extancy[h]
host_current_areas(h) ==
    IF h \in HostLineages THEN current_areas[h] ELSE other_objects.current_areas[h]

\* everything replicate r holds: its Area objects, its HostLineage objects
\* and its event list
ReplicateState(r) ==
    [areas |-> [i \in DOMAIN host_systems[r].areas |->
                   [host_lineages |-> area_host_lineages(host_systems[r].areas[i].id),
                    symbiont_lineages |->
                        area_symbiont_lineages(host_systems[r].areas[i].id)]],
     host_lineages |->
         [h \in DOMAIN host_systems[r].host_lineages_by_id |->
             [extancy |-> host_extancy(host_systems[r].host_lineages_by_id[h]),
              current_areas |->
                  host_current_areas(host_systems[r].host_lineages_by_id[h])]],
     host_events |-> host_systems[r].host_events]

\* the Area and HostLineage objects of the other replicate as Area.__init__
\* and HostLineage.__init__ leave them
NewObjects ==
    [host_lineages |-> [a \in NumAreas..(2 * NumAreas - 1) |-> {}],
     symbiont_lineages |-> [a \in NumAreas..(2 * NumAreas - 1) |-> {}],
     extancy |-> [h \in (NumHosts + 1)..(2 * NumHosts) |-> "pre"],
     current_areas |-> [h \in (NumHosts + 1)..(2 * NumHosts) |-> {}]]

\* no HostSystem has been constructed for the replicate
NoHostSystem == [areas |-> <<>>, host_lineages_by_id |-> <<>>, host_events |-> <<>>]

\* HostSystem.__init__, which is compile(host_history, ...): the exception it
\* raises.  A history that was never compiled has no attribute tree, one
\* whose compile failed before the times were set has start_time None.
HostSystemInit(r, hh, lins) ==
    IF "tree" \notin DOMAIN hh THEN "AttributeError"
    ELSE IF hh.start_time = None \/ hh.end_time = None THEN "TypeError"
    ELSE IF generate_areas((r - 1) * NumAreas, lins).exc # "none"
         THEN generate_areas((r - 1) * NumAreas, lins).exc
    ELSE "ok"

\* HostSystem(host_history, host_to_symbiont_time_scale_factor) for replicate
\* r: a HostSystem with new Area and HostLineage objects, or none when the
\* construction raises
HostSystem(r) ==
    /\ LET exc == HostSystemInit(r, host_history, lineages)
       IN  /\ result' = exc
           /\ host_systems' =
                  IF exc = "ok"
                  THEN [host_systems EXCEPT ![r] = HostSystemCompile(r, events, lineages)]
                  ELSE host_systems
           /\ IF exc = "ok" /\ r = 1
              THEN /\ extancy' = [h \in HostLineages |-> "pre"]
                   /\ current_areas' = [h \in HostLineages |-> {}]
                   /\ host_lineages' = [a \in Areas |-> {}]
                   /\ symbiont_lineages' = [a \in Areas |-> {}]
              ELSE UNCHANGED <<hostVars, symbiont_lineages>>
           /\ IF exc = "ok" /\ r # 1
              THEN other_objects' = NewObjects
              ELSE UNCHANGED other_objects
    /\ lastOp' = "HostSystem"
    /\ UNCHANGED <<host_area_distribution, infected_hosts, infected_areas, phyVars,
                   host_order, modelVars, historyVars, callVars>>

(***************************************************************************)
(* HostSystem.extant_host_lineages_at_current_time: the scan over          *)
(* host_lineages_by_id.values(), in the order ord of the dict's keys; the  *)
(* HostLineage object kept under key k has the times of lineage k.         *)
(***************************************************************************)
\* a scan that keeps only the lineages whose end lies after current_time
ExtantHostLineagesEndExclusive(r, current_time, ord) ==
    LET kept == SelectSeq(ord, LAMBDA k : start_time(k) <= current_time
                                          /\ end_time(k) > current_time)
    IN  [i \in 1..Len(kept) |-> host_systems[r].host_lineages_by_id[kept[i]]]

RECURSIVE ExtantHostLineagesLoop(_, _, _, _, _)
ExtantHostLineagesLoop(r, current_time, ord, i, lins) ==
    IF i > Len(ord) THEN lins
    ELSE ExtantHostLineagesLoop(r, current_time, ord, i + 1,
             IF start_time(ord[i]) <= current_time /\ end_time(ord[i]) >= current_time
             THEN Append(lins, host_systems[r].host_lineages_by_id[ord[i]])
             ELSE lins)

ExtantHostLineagesAtCurrentTime(r, current_time, ord) ==
    ExtantHostLineagesLoop(r, current_time, ord, 1, <<>>)

extant_host_lineages_at_current_time(r, current_time) ==
    /\ lastOp' = "extant_host_lineages_at_current_time"
    /\ arguments' = <<r, current_time>>
    /\ \E ord \in Orders(DOMAIN host_systems[r].host_lineages_by_id) :
           returned' = ExtantHostLineagesAtCurrentTime(r, current_time, ord)
    /\ result' = "ok"
    /\ UNCHANGED <<hostVars, symVars, phyVars, host_order, modelVars, historyVars,
                   replicateVars, rate_function_definition, rate_function>>

(***************************************************************************)
(* HostLineage.debug_check_extancy_state, for a HostLineage built from the *)
(* definition lineages[h]: the five branches on the differences of the     *)
(* time to start_time and end_time, each asserting the extancy.            *)
(***************************************************************************)
abs(x) == IF x < 0 THEN 0 - x ELSE x

\* a check that compares the time with the bounds exactly, as the
\* commented-out branches of the method do
DebugCheckExtancyStateExact(ext, start, end, simulation_elapsed_time) ==
    IF simulation_elapsed_time < start THEN ext = "pre"
    ELSE IF simulation_elapsed_time > end THEN ext = "post"
    ELSE IF simulation_elapsed_time = start THEN ext \in {"current", "pre"}
    ELSE IF simulation_elapsed_time = end THEN ext \in {"current", "post"}
    ELSE ext = "current"

\* TRUE iff every assert of the method passes
DebugCheckExtancyState(ext, start, end, simulation_elapsed_time) ==
    LET diff_start_time == simulation_elapsed_time - start
        diff_end_time == simulation_elapsed_time - end
    IN  IF diff_start_time < 0 - epsilon THEN ext = "pre"
        ELSE IF diff_end_time > epsilon THEN ext = "post"
        ELSE IF abs(diff_start_time) < epsilon THEN ext \in {"current", "pre"}
        ELSE IF abs(diff_end_time) < epsilon THEN ext \in {"current", "post"}
        ELSE ext = "current"

debug_check_extancy_state(h, simulation_elapsed_time) ==
    /\ lastOp' = "debug_check_extancy_state"
    /\ arguments' = <<h, simulation_elapsed_time>>
    /\ result' =
           IF DebugCheckExtancyState(
                  extancy[h],
                  lineages[h].lineage_start_time * host_to_symbiont_time_scale_factor,
                  lineages[h].lineage_end_time * host_to_symbiont_time_scale_factor,
                  simulation_elapsed_time)
           THEN "ok" ELSE "AssertionError"
    /\ UNCHANGED <<hostVars, symVars, phyVars, host_order, modelVars, historyVars,
                   replicateVars, rate_function_definition, rate_function, returned>>

(***************************************************************************)
(* weighted_choice and weighted_index_choice.  Their numbers are Python    *)
(* floats: binary floating point, every operation rounded to the nearest   *)
(* representable value, ties to the even significand.  The model keeps     *)
(* this arithmetic with a significand of Precision bits (a double has 53). *)
(* A number is an integer count of the unit 2^-(2 * Precision); the        *)
(* weights and the draw are multiples of 2^-Precision, so that every       *)
(* product is a whole number of units.                                     *)
(***************************************************************************)
One == 2 ^ (2 * Precision)

RECURSIVE Ulp(_)
\* the spacing of the representable numbers at the magnitude n
Ulp(n) == IF n < 2 ^ Precision THEN 1 ELSE 2 * Ulp(n \div 2)

\* the float nearest to the real number x
fl(x) ==
    LET n == abs(x)
        q == n \div Ulp(n)
        r == n % Ulp(n)
        m == IF 2 * r > Ulp(n) \/ (2 * r = Ulp(n) /\ q % 2 = 1)
             THEN (q + 1) * Ulp(n) ELSE q * Ulp(n)
    IN  IF x < 0 THEN 0 - m ELSE m

FloatAdd(x, y) == fl(x + y)
FloatSub(x, y) == fl(x - y)
FloatMul(x, y) == fl((x * y) \div One)
\* x / y for a whole number y: the quotient is kept to three bits more than
\* the significand, and a bit that tells whether anything was cut off
FloatDiv(x, y) ==
    LET scaled == x * 2 ^ (Precision + 2)
        sticky == IF scaled % y = 0 THEN 0 ELSE 1
    IN  fl(2 * (scaled \div y) + sticky) \div 2 ^ (Precision + 3)

RECURSIVE sum(_)
\* sum(weights): the additions from left to right, each rounded
sum(weights) ==
    IF weights = <<>> THEN 0
    ELSE FloatAdd(sum(SubSeq(weights, 1, Len(weights) - 1)), weights[Len(weights)])

RECURSIVE WeightedIndexLoop(_, _, _)
\* the loop of weighted_index_choice from index i (counted from 1) on, with
\* rnd as the iterations before left it; the function returns None when the
\* loop ends without a return
WeightedIndexLoop(weights, rnd, i) ==
    IF i > Len(weights) THEN None
    ELSE IF FloatSub(rnd, weights[i]) < 0 THEN i - 1
    ELSE WeightedIndexLoop(weights, FloatSub(rnd, weights[i]), i + 1)

\* weighted_index_choice(weights, sum_of_weights, rng), u being the value
\* rng.uniform(0, 1) returns
WeightedIndexChoice(weights, sum_of_weights, u) ==
    WeightedIndexLoop(weights, FloatMul(u, sum_of_weights), 1)

\* weighted_choice(seq, weights, rng) from the test of the number of weights
\* on: the element returned (v) or the exception raised
WeightedChoice(seq, given, u) ==
    LET sow == sum(given)
        completed == IF Len(given) = Len(seq) - 1
                     THEN Append(given, FloatSub(One, sow))
                     ELSE given
        index == WeightedIndexChoice(completed, sow, u)
    IN  IF Len(given) < Len(seq) - 1 THEN [v |-> None, exc |-> "Exception"]
        ELSE IF index = None THEN [v |-> None, exc |-> "TypeError"]
        ELSE IF index + 1 > Len(seq) THEN [v |-> None, exc |-> "IndexError"]
        ELSE [v |-> seq[index + 1], exc |-> "ok"]

\* weighted_index_choice(weights, sum(weights), rng) on the weights and the
\* draw that arguments holds
weighted_index_choice ==
    /\ lastOp' = "weighted_index_choice"
    /\ "weights" \in DOMAIN arguments
    /\ returned' = WeightedIndexChoice(arguments.weights, sum(arguments.weights),
                                       arguments.u)
    /\ result' = "ok"
    /\ UNCHANGED <<hostVars, symVars, phyVars, host_order, modelVars, historyVars,
                   replicateVars, rate_function_definition, rate_function, arguments>>

\* weighted_choice(seq, weights, rng) on the arguments; arguments has no
\* weights when weights is None, and the weights are then 1.0 / len(seq) each
weighted_choice ==
    /\ lastOp' = "weighted_choice"
    /\ LET weights == IF "weights" \in DOMAIN arguments THEN arguments.weights
                      ELSE [count \in 1..Len(arguments.seq) |->
                               FloatDiv(One, Len(arguments.seq))]
           c == WeightedChoice(arguments.seq, weights, arguments.u)
       IN  /\ returned' = c.v
           /\ result' = c.exc
    /\ UNCHANGED <<hostVars, symVars, phyVars, host_order, modelVars, historyVars,
                   replicateVars, rate_function_definition, rate_function, arguments>>

(***************************************************************************)
(* The objects of a replicate as HostSystem and SymbiontPhylogeny          *)
(* construct them: every host lineage is "pre" with no area, the seed      *)
(* lineage (index 0) is the single live lineage and occupies nothing yet.  *)
(***************************************************************************)
InitObjects ==
    /\ extancy = [h \in HostLineages |-> "pre"]
    /\ current_areas = [h \in HostLineages |-> {}]
    /\ host_lineages = [a \in Areas |-> {}]
    /\ symbiont_lineages = [a \in Areas |-> {}]
    /\ host_area_distribution = [l \in LineageIds |-> EmptyDistribution]
    /\ infected_hosts = [l \in LineageIds |-> {}]
    /\ infected_areas = [l \in LineageIds |-> {}]
    /\ is_extant = [l \in LineageIds |-> l = 0]
    /\ child_nodes = [l \in LineageIds |-> <<>>]
    /\ current_lineages = {0}
    /\ lineage_indexer = 1
    /\ host_order = <<>>
    /\ other_objects = NewObjects
    /\ lastOp = "init"
    /\ result = "ok"

\* no RateFunction has been constructed and no query or function called
NoCall ==
    /\ rate_function_definition = EmptyDict
    /\ rate_function = NewRateFunction
    /\ arguments = <<>>
    /\ returned = None

InitReplicate ==
    /\ InitObjects
    /\ host_systems = [r \in Replicates |->
                          HostSystemCompile(r, HistoryEvents,
                                            [h \in HostLineages |-> LineageDefinition(h)])]

\* the history the replicate was built from, as the parsers leave it
InitHistory ==
    /\ events = HistoryEvents
    /\ lineages = [h \in HostLineages |-> LineageDefinition(h)]
    /\ host_history = [tree |-> HostLineages, start_time |-> 0, end_time |-> MaxTime]

\* no InphestModel has been constructed: nothing is parsed or written
NoModel ==
    /\ model_definition = EmptyDict
    /\ model = EmptyDict
    /\ written = EmptyDict
    /\ reparsed = EmptyDict

Init == InitReplicate /\ InitHistory /\ NoModel /\ NoCall

\* the calls of the host-event replay on the HostLineage objects
NextHost ==
    \/ \E h \in HostLineages, t \in Times \cup {None} : activate(h, t)
    \/ \E h \in HostLineages : deactivate(h)
    \/ \E h \in HostLineages, a \in Areas : add_area(h, a)
    \/ \E h \in HostLineages, a \in Areas : remove_area(h, a)
    \/ \E h \in HostLineages : clear_areas(h)

\* the calls on the SymbiontLineage objects
NextSymbiont ==
    \/ \E l \in LineageIds, h \in HostLineages, a \in Areas \cup {None} :
           add_host_in_area(l, h, a)
    \/ \E l \in LineageIds, h \in HostLineages, a \in Areas \cup {None} :
           remove_host_in_area(l, h, a)
    \/ \E l \in LineageIds, a \in Areas, f \in BOOLEAN : sync_area_cache(l, a, f)
    \/ \E l \in LineageIds, h \in HostLineages, f \in BOOLEAN : sync_host_cache(l, h, f)
    \/ \E l \in LineageIds : clear_distribution(l)

\* the calls on the SymbiontPhylogeny
NextPhylogeny ==
    \/ \E l \in LineageIds : split_lineage(l)
    \/ \E l \in LineageIds : extinguish_lineage(l)

(***************************************************************************)
(* Spec: the host lineages and the symbiont lineage cache of the seed      *)
(* lineage, under every interleaving of their public mutators.  The host   *)
(* calls are those of NextHost with activate called without a time (the    *)
(* default of simulation_elapsed_time); SpecHost covers the times.         *)
(***************************************************************************)
Next ==
    \/ \E h \in HostLineages : activate(h, None)
    \/ \E h \in HostLineages : deactivate(h)
    \/ \E h \in HostLineages, a \in Areas : add_area(h, a)
    \/ \E h \in HostLineages, a \in Areas : remove_area(h, a)
    \/ \E h \in HostLineages : clear_areas(h)
    \/ NextSymbiont

Spec == Init /\ [][Next]_vars

(***************************************************************************)
(* SpecHost: the HostLineage mutators alone.                               *)
(***************************************************************************)
SpecHost == Init /\ [][NextHost]_vars

(***************************************************************************)
(* SpecPhylo: the topology operations, with the host and symbiont calls    *)
(* that build distributions and let hosts leave areas in between.          *)
(***************************************************************************)
NextPhylo ==
    \/ \E h \in HostLineages : activate(h, None)
    \/ \E h \in HostLineages, a \in Areas : remove_area(h, a)
    \/ \E l \in LineageIds, h \in HostLineages, a \in Areas \cup {None} :
           add_host_in_area(l, h, a)
    \/ \E l \in LineageIds, h \in HostLineages, a \in Areas \cup {None} :
           remove_host_in_area(l, h, a)
    \/ NextPhylogeny

SpecPhylo == Init /\ [][NextPhylo]_vars

\* the calls on the InphestModel objects
NextModel ==
    \/ parse_definition
    \/ write_model
    \/ parse_written

(***************************************************************************)
(* SpecModel: an InphestModel is constructed, parses a definition, is      *)
(* written out, and a second InphestModel parses what was written.         *)
(***************************************************************************)
InitModel ==
    /\ InitReplicate
    /\ InitHistory
    /\ NoCall
    /\ \/ model_definition = PyNone
       \/ \E populated \in SUBSET Channels, kind \in WeightKinds,
             unknown \in {"none", "top"} \cup Blocks,
             cladogenetic \in BOOLEAN, identified \in BOOLEAN :
              model_definition = Definition(populated, kind, unknown,
                                            cladogenetic, identified)
    /\ model = EmptyDict
    /\ written = EmptyDict
    /\ reparsed = EmptyDict

SpecModel == InitModel /\ [][NextModel]_vars

(***************************************************************************)
(* SpecDistribution: the distributions of the symbiont lineages of one     *)
(* phylogeny, built on activated hosts, split once, merged and cleared,    *)
(* with host area losses in between.                                       *)
(***************************************************************************)
NextDistribution ==
    \/ \E h \in HostLineages : activate(h, None)
    \/ \E h \in HostLineages, a \in Areas : remove_area(h, a)
    \/ \E l \in LineageIds, h \in HostLineages, a \in Areas \cup {None} :
           add_host_in_area(l, h, a)
    \/ \E l \in LineageIds : split_lineage(l)
    \/ \E l, other \in LineageIds : update_distribution(l, other)
    \/ \E l \in LineageIds : clear_distribution(l)

SpecDistribution == Init /\ [][NextDistribution]_vars

(***************************************************************************)
(* SpecExtinction: lineages are given distributions on activated hosts,    *)
(* split and extinguished.                                                 *)
(***************************************************************************)
NextExtinction ==
    \/ \E h \in HostLineages : activate(h, None)
    \/ \E l \in LineageIds, h \in HostLineages, a \in Areas \cup {None} :
           add_host_in_area(l, h, a)
    \/ NextPhylogeny

SpecExtinction == Init /\ [][NextExtinction]_vars

(***************************************************************************)
(* SpecCompile: a HostHistory as a parser filled it, events in any order   *)
(* on lineages of the lineage map, is compiled against a tree and then     *)
(* HostSystems are constructed from it.  The lineage map holds any         *)
(* non-empty set of the lineages; its bitstrings have the common width     *)
(* NumAreas or NumAreas - 1, or lineage NumHosts has a start or an end     *)
(* bitstring one wider than the rest.                                      *)
(***************************************************************************)
Widths == {"narrow", "common", "wide_start", "wide_end"}

\* a bitstring cut or padded to width w
Resized(bits, w) == [i \in 1..w |-> IF i <= Len(bits) THEN bits[i] ELSE "0"]

HistoryLineage(h, width) ==
    LET ws == IF width = "narrow" THEN NumAreas - 1
              ELSE IF width = "wide_start" /\ h = NumHosts THEN NumAreas + 1
              ELSE NumAreas
        we == IF width = "narrow" THEN NumAreas - 1
              ELSE IF width = "wide_end" /\ h = NumHosts THEN NumAreas + 1
              ELSE NumAreas
    IN  [LineageDefinition(h) EXCEPT
            !.lineage_start_distribution_bitstring = Resized(@, ws),
            !.lineage_end_distribution_bitstring = Resized(@, we)]

Cladogenesis ==
    [event_type |-> "cladogenesis", event_subtype |-> "narrow_sympatry",
     area_idx |-> None]

\* the arguments of compile: the keys of the nodes of a tree, and the bounds
Trees == SUBSET HostLineages \ {{}}
StartTimes == {0, 1}
EndTimes == {MaxTime - 1, MaxTime}

InitCompile ==
    /\ InitObjects
    /\ NoModel
    /\ NoCall
    /\ host_systems = [r \in Replicates |-> NoHostSystem]
    /\ host_history = [start_time |-> None, end_time |-> None]
    /\ \E ids \in SUBSET HostLineages \ {{}}, width \in Widths :
           /\ lineages = [h \in ids |-> HistoryLineage(h, width)]
           /\ \E n \in 0..MaxEvents :
                  events \in [1..n -> {HostEvent(t, h, Cladogenesis) :
                                           t \in Times, h \in ids}]

NextCompile ==
    \/ \E tr \in Trees, st \in StartTimes, en \in EndTimes : compile(tr, st, en)
    \/ \E r \in Replicates : HostSystem(r)

SpecCompile == InitCompile /\ [][NextCompile]_vars

(***************************************************************************)
(* SpecQueries: the host-event replay on the hosts of replicate 1, with    *)
(* the HostSystem asked at any time which lineages span that time.         *)
(***************************************************************************)
QueryTimes == Times \cup {MaxTime + 1}

NextQueries ==
    \/ NextHost
    \/ \E t \in QueryTimes : extant_host_lineages_at_current_time(1, t)

SpecQueries == Init /\ [][NextQueries]_vars

(***************************************************************************)
(* SpecRateFunction: a RateFunction is built from a definition dictionary  *)
(* (by from_definition_dict, or by the constructor with the dictionary's   *)
(* values) and then called with keyword contexts.  The dictionary has any  *)
(* of the six spellings of the three definition types or a tag that is     *)
(* none of them, a number, a lambda text or a function object as its       *)
(* content, and may lack the content or hold an unsupported keyword.       *)
(***************************************************************************)
DefinitionTypes ==
    {"fixed_value", "fixed-value", "lambda_definition", "lambda-definition",
     "function_object", "function-object", "map", "value"}

DefinitionContents ==
    {PyInt(300), PyFloat(150), PyStr(LambdaOne0), PyStr(10), PyFunction(0)}

RateFunctionDefinition(type, content, keys) ==
    [k \in {"definition_type"} \cup keys |->
        IF k = "definition_type" THEN type
        ELSE IF k = "definition" THEN content
        ELSE IF k = "description" THEN "rate"
        ELSE PyInt(100)]

RateFunctionDefinitions ==
    {RateFunctionDefinition(type, content, keys) :
        type \in DefinitionTypes, content \in DefinitionContents,
        keys \in SUBSET {"definition", "description", UnknownKey}}

InitRateFunction ==
    /\ InitReplicate
    /\ InitHistory
    /\ NoModel
    /\ rate_function_definition \in RateFunctionDefinitions
    /\ rate_function = NewRateFunction
    /\ arguments = <<>>
    /\ returned = None

NextRateFunction ==
    \/ rate_function_from_definition_dict
    \/ rate_function_init
    \/ \E kwargs \in Contexts : rate_function_call(kwargs)

SpecRateFunction == InitRateFunction /\ [][NextRateFunction]_vars

(***************************************************************************)
(* SpecExtancyCheck: host lineage 1 is built from a definition with any    *)
(* start_time <= end_time (times in half epsilons), the hosts are          *)
(* activated and deactivated, and the extancy of a host is checked against *)
(* any time from before its start to after its end.                        *)
(***************************************************************************)
CheckTimes == (0 - epsilon - 1)..(MaxCheckTime + epsilon + 1)

InitExtancyCheck ==
    /\ InitReplicate
    /\ NoModel
    /\ NoCall
    /\ events = <<>>
    /\ host_history = [tree |-> HostLineages, start_time |-> 0, end_time |-> MaxCheckTime]
    /\ \E start \in 0..MaxCheckTime, end \in 0..MaxCheckTime :
          /\ start <= end
          /\ lineages = [h \in HostLineages |->
                            IF h = 1
                            THEN [LineageDefinition(h) EXCEPT
                                     !.lineage_start_time = start,
                                     !.lineage_end_time = end]
                            ELSE LineageDefinition(h)]

NextExtancyCheck ==
    \/ \E h \in HostLineages : activate(h, None)
    \/ \E h \in HostLineages : deactivate(h)
    \/ \E h \in HostLineages, t \in CheckTimes : debug_check_extancy_state(h, t)

SpecExtancyCheck == InitExtancyCheck /\ [][NextExtancyCheck]_vars

(***************************************************************************)
(* SpecChoice: weighted_index_choice and weighted_choice are applied to    *)
(* arguments drawn from bounded sets: a sequence of one to MaxWeights      *)
(* elements, no weights or a list of at most as many weights as elements,  *)
(* each weight a float m * 2^e with a significand m of Precision bits and  *)
(* e one of three exponents (0 to 3.5 for Precision = 3), and a draw of    *)
(* rng.uniform(0, 1): any multiple of 2^-Precision in [0, 1).              *)
(***************************************************************************)
Elements == <<"a", "b", "c", "d", "e">>

Weights ==
    {m * 2 ^ k : m \in 0..(2 ^ Precision - 1), k \in Precision..(Precision + 2)}

Draws == {m * 2 ^ Precision : m \in 0..(2 ^ Precision - 1)}

InitChoice ==
    /\ InitReplicate
    /\ InitHistory
    /\ NoModel
    /\ rate_function_definition = EmptyDict
    /\ rate_function = NewRateFunction
    /\ returned = None
    /\ \E n \in 1..MaxWeights, u \in Draws :
          \/ arguments = [seq |-> SubSeq(Elements, 1, n), u |-> u]
          \/ \E k \in 0..n : \E weights \in [1..k -> Weights] :
                arguments = [seq |-> SubSeq(Elements, 1, n), weights |-> weights, u |-> u]

NextChoice ==
    \/ weighted_index_choice
    \/ weighted_choice

SpecChoice == InitChoice /\ [][NextChoice]_vars

(***************************************************************************)
(* SpecReplicates: two HostSystem replicates built from one HostHistory;   *)
(* the host lineages of replicate 1 are mutated, and its seed symbiont     *)
(* lineage (lineage 0) is added to and removed from host lineage 1.        *)
(***************************************************************************)
NextReplicates ==
    \/ NextHost
    \/ \E a \in Areas \cup {None} : add_host_in_area(0, 1, a)
    \/ \E a \in Areas \cup {None} : remove_host_in_area(0, 1, a)

SpecReplicates == Init /\ [][NextReplicates]_vars

(***************************************************************************)
(* SpecHistory: a HostHistory as a parser filled it (lineage definitions,  *)
(* events appended in any order), then validated.  Lineage 1 has any start *)
(* and end distribution and events of every kind, at times inside and      *)
(* (MaxTime) outside its time bounds; the other lineages keep their        *)
(* definitions and have a cladogenesis or a loss of area 0 at MaxTime.     *)
(***************************************************************************)
Bitstrings == [1..NumAreas -> {"0", "1"}]

EventKinds ==
    {[event_type |-> "anagenesis", event_subtype |-> s, area_idx |-> a] :
        s \in {"area_gain", "area_loss"}, a \in Areas}
    \cup {[event_type |-> "cladogenesis", event_subtype |-> "narrow_sympatry",
           area_idx |-> None]}

HostEvents ==
    {HostEvent(t, 1, k) : t \in 1..MaxTime, k \in EventKinds}
    \cup {HostEvent(MaxTime, h, k) :
            h \in HostLineages \ {1},
            k \in {x \in EventKinds : x.event_type = "cladogenesis"
                                       \/ (x.event_subtype = "area_loss"
                                           /\ x.area_idx = 0)}}

InitValidate ==
    /\ InitReplicate
    /\ NoModel
    /\ NoCall
    /\ host_history = [tree |-> HostLineages, start_time |-> 0, end_time |-> MaxTime]
    /\ \E n \in 0..MaxEvents : events \in [1..n -> HostEvents]
    /\ \E s \in Bitstrings, e \in Bitstrings :
           lineages = [h \in HostLineages |->
                          IF h = 1
                          THEN [LineageDefinition(h) EXCEPT
                                   !.lineage_start_distribution_bitstring = s,
                                   !.lineage_end_distribution_bitstring = e]
                          ELSE LineageDefinition(h)]

NextHistory == validate

SpecHistory == InitValidate /\ [][NextHistory]_vars

(***************************************************************************)
(* Properties.                                                             *)
(***************************************************************************)
\* the occupied (host, area) cells of a lineage's matrix
Cells(l) == {c \in HostLineages \X Areas : host_area_distribution[l][c[1]][c[2]] = 1}

\* C1: on a lineage with a non-empty distribution, an add_host_in_area /
\* remove_host_in_area call whose asserted precondition holds returns
\* normally with both derived sets non-empty when it leaves an occupied cell,
\* and raises NullDistributionException when it leaves either set empty.
C1_NonNullContract ==
    [][\A l \in current_lineages :
          ( /\ lastOp' \in {"add_host_in_area", "remove_host_in_area"}
            /\ Cells(l) # {}
            /\ result' # "AssertionError" )
          => /\ (Cells(l)' # {}
                    => /\ result' = "ok"
                       /\ infected_hosts'[l] # {}
                       /\ infected_areas'[l] # {})
             /\ (infected_hosts'[l] = {} \/ infected_areas'[l] = {}
                    => result' = "NullDistributionException")]_vars

\* C2: the caches of every live lineage equal what its matrix implies, and
\* the lineage is registered in exactly the areas of its infected-area set.
C2_CachesMatchMatrix ==
    \A l \in current_lineages :
        /\ infected_hosts[l] = {h \in HostLineages : \E a \in Areas : <<h, a>> \in Cells(l)}
        /\ infected_areas[l] = {a \in Areas : \E h \in HostLineages : <<h, a>> \in Cells(l)}
        /\ \A a \in Areas : l \in symbiont_lineages[a] <=> a \in infected_areas[l]

\* C3: every occupied cell of a live lineage has its host in extancy
\* "current" and its area among that host's current areas.
C3_CellsOnCurrentHostAreas ==
    \A l \in current_lineages : \A c \in Cells(l) :
        extancy[c[1]] = "current" /\ c[2] \in current_areas[c[1]]

\* C4: the extancy of every host lineage starts at "pre" and only ever moves
\* along pre -> current -> post: never from current back to pre, never out of
\* post.
C4_ExtancyMonotone ==
    /\ \A h \in HostLineages : extancy[h] = "pre"
    /\ [][\A h \in HostLineages :
             /\ extancy[h] = "pre" => extancy'[h] \in {"pre", "current"}
             /\ extancy[h] = "current" => extancy'[h] \in {"current", "post"}
             /\ extancy[h] = "post" => extancy'[h] = "post"]_vars

\* a failed activate on a host lineage that went through its whole life
C4_Witness ==
    /\ lastOp = "activate"
    /\ result = "AssertionError"
    /\ \E h \in HostLineages : extancy[h] = "post"
    /\ \E h \in HostLineages : extancy[h] = "current"

\* C5: split_lineage of a live lineage with a non-empty distribution
\* completes, and each daughter has non-empty derived sets and exactly the
\* parent's pre-split occupied cells.
C5_SplitCopiesDistribution ==
    [][\A l \in current_lineages :
          (Cells(l) # {} /\ split_lineage(l))
          => /\ result' = "ok"
             /\ \A c \in {lineage_indexer, lineage_indexer + 1} :
                    /\ Cells(c)' = Cells(l)
                    /\ infected_hosts'[c] # {}
                    /\ infected_areas'[c] # {}]_vars

\* C6: extinguish_lineage on the single live lineage raises
\* TotalExtinctionException and changes neither the live set, nor any
\* is_extant flag, nor any distribution, cache or Area registration.
C6_TotalExtinctionNoMutation ==
    [][\A l \in current_lineages :
          (Cardinality(current_lineages) = 1 /\ extinguish_lineage(l))
          => /\ result' = "TotalExtinctionException"
             /\ UNCHANGED <<current_lineages, is_extant, child_nodes, symVars>>]_vars

\* the last of two daughters, still holding a distribution, was refused
C6_Witness ==
    /\ lastOp = "extinguish_lineage"
    /\ result = "TotalExtinctionException"
    /\ Cardinality(current_lineages) = 1
    /\ \E l \in current_lineages : l # 0 /\ Cells(l) # {}

TopLevelKeys == {"model_id", "host_to_symbiont_time_scale_factor"} \cup Blocks

BlockKeys ==
    [b \in Blocks |->
        IF b = "cladogenetic_host_assemblage_evolution"
        THEN {HostCladogenesis[i].key : i \in DOMAIN HostCladogenesis}
        ELSE IF b = "cladogenetic_geographical_range_evolution"
        THEN {SymbiontCladogenesis[i].key : i \in DOMAIN SymbiontCladogenesis}
        ELSE {Channel[c].rate : c \in {x \in Channels : Channel[x].block = b}}
                 \cup {Channel[c].weight : c \in {x \in Channels : Channel[x].block = b}}]

HasUnrecognizedKey(d) ==
    \/ DOMAIN d \ TopLevelKeys # {}
    \/ \E b \in Blocks \cap DOMAIN d : DOMAIN d[b] \ BlockKeys[b] # {}

\* every weight definition of d is one RateFunction accepts
WeightDefinitionsCompile(d) ==
    \A c \in Channels :
        LET b == Get(d, Channel[c].block, EmptyDict)
        IN  Channel[c].weight \in DOMAIN b
                => from_definition_dict(b[Channel[c].weight]).exc = "none"

\* C8: parse_definition raises TypeError for a definition that holds one
\* unrecognized key, at the top level or inside any of the five sub-blocks
\* (and is otherwise acceptable): the key is never silently ignored.
C8_UnknownKeyRaisesTypeError ==
    (/\ lastOp = "parse_definition"
     /\ HasUnrecognizedKey(AsDefinition(model_definition))
     /\ WeightDefinitionsCompile(AsDefinition(model_definition)))
        => result = "TypeError"

\* every recognized field of d is populated, and nothing else
FullyPopulated(d) ==
    /\ DOMAIN d = TopLevelKeys
    /\ \A b \in Blocks : DOMAIN d[b] = BlockKeys[b]
    /\ \A c \in Channels : "description" \in DOMAIN d[Channel[c].block][Channel[c].weight]

\* C9: for a definition D with all recognized fields populated, parsing what
\* write_model emitted succeeds and yields a model whose every mean rate,
\* weight-function definition and description, and cladogenetic weight
\* equals the value in D; write_model emits the nested keys parse_definition
\* reads.
C9_WriteModelRoundTrip ==
    (/\ lastOp = "parse_written"
     /\ FullyPopulated(model_definition)
     /\ WeightDefinitionsCompile(model_definition))
        => /\ result = "ok"
           /\ \A b \in Blocks : DOMAIN written[b] = BlockKeys[b]
           /\ \A c \in Channels :
                  LET ch == Channel[c]
                      b == model_definition[ch.block]
                  IN  /\ PyEq(reparsed[ch.rate], b[ch.rate])
                      /\ PyEq(reparsed[ch.function].definition_content,
                              b[ch.weight].definition)
                      /\ reparsed[ch.function].description = b[ch.weight].description
           /\ \A i \in DOMAIN HostCladogenesis :
                  PyEq(reparsed[HostCladogenesis[i].attr],
                       model_definition["cladogenetic_host_assemblage_evolution"]
                                       [HostCladogenesis[i].key])
           /\ \A i \in DOMAIN SymbiontCladogenesis :
                  PyEq(reparsed[SymbiontCladogenesis[i].attr],
                       model_definition["cladogenetic_geographical_range_evolution"]
                                       [SymbiontCladogenesis[i].key])

\* C10: after a successful parse_definition, for each of the six channels
\* the mean rate and the weight RateFunction of the model are the ones the
\* definition supplies for that channel, and the defaults only where the
\* definition supplies none.
C10_ChannelsTakenFromDefinition ==
    (lastOp = "parse_definition" /\ result = "ok")
        => \A c \in Channels :
               LET ch == Channel[c]
                   b == Get(model_definition, ch.block, EmptyDict)
               IN  /\ IF ch.rate \in DOMAIN b
                      THEN PyEq(model[ch.rate], b[ch.rate])
                      ELSE model[ch.rate] = ch.default_rate
                   /\ IF ch.weight \in DOMAIN b
                      THEN /\ model[ch.function].definition_type
                                  = replace(b[ch.weight].definition_type)
                           /\ PyEq(model[ch.function].definition_content,
                                   b[ch.weight].definition)
                           /\ model[ch.function].description
                                  = Get(b[ch.weight], "description", "")
                      ELSE model[ch.function]
                               = [definition_type |-> "lambda_definition",
                                  definition_content |-> ch.default_content,
                                  description |-> ch.default_description]

\* the events of a lineage in time order, and the distribution that results
\* from the first n of them when each gain sets and each loss clears its area
chronological(evs, lineage_id) == sort(lineage_events(evs, lineage_id))

applied(bitlist, event) ==
    IF event.event_subtype = "area_gain" THEN [bitlist EXCEPT ![event.area_idx + 1] = "1"]
    ELSE IF event.event_subtype = "area_loss" THEN [bitlist EXCEPT ![event.area_idx + 1] = "0"]
    ELSE bitlist

RECURSIVE running(_, _, _)
running(start, list, n) ==
    IF n = 0 THEN start ELSE applied(running(start, list, n - 1), list[n])

\* event i of the list gains an area the running distribution has, or loses
\* one it has not
Inapplicable(start, list, i) ==
    \/ /\ list[i].event_subtype = "area_gain"
       /\ running(start, list, i - 1)[list[i].area_idx + 1] = "1"
    \/ /\ list[i].event_subtype = "area_loss"
       /\ running(start, list, i - 1)[list[i].area_idx + 1] = "0"

\* event i of the list is a cladogenesis on a changed distribution
ChangedAtCladogenesis(start, list, i) ==
    /\ list[i].event_type = "cladogenesis"
    /\ running(start, list, i - 1) # start

\* C11: validate raises when some lineage has an area-gain event on an area
\* present in its running distribution at that point, or an area-loss event
\* on an area absent from it; two gains of one area with no loss in between
\* are rejected.
C11_ValidateRejectsDoubleGainLoss ==
    (/\ lastOp = "validate"
     /\ \E h \in HostLineages :
            \E i \in DOMAIN chronological(events, h) :
                Inapplicable(lineages[h].lineage_start_distribution_bitstring,
                             chronological(events, h), i))
        => result = "AssertionError"

\* C12: validate succeeds on every history in which each lineage's events, in
\* time order, lie within the lineage's time bounds and are each applicable
\* to the running distribution (a gain followed later by a loss of the same
\* area included).
C12_ValidateAcceptsApplicableHistory ==
    (/\ lastOp = "validate"
     /\ \A h \in HostLineages :
            LET list == chronological(events, h)
                start == lineages[h].lineage_start_distribution_bitstring
            IN  \A i \in DOMAIN list :
                    /\ is_in_range(list[i].event_time, lineages[h].lineage_start_time,
                                   lineages[h].lineage_end_time)
                    /\ ~Inapplicable(start, list, i)
                    /\ ~ChangedAtCladogenesis(start, list, i))
        => result = "ok"

\* C13: validate raises when a cladogenesis event of a lineage occurs where
\* the lineage's running distribution differs from its declared start
\* distribution.
C13_ValidateRejectsChangedCladogenesis ==
    (/\ lastOp = "validate"
     /\ \E h \in HostLineages :
            \E i \in DOMAIN chronological(events, h) :
                ChangedAtCladogenesis(lineages[h].lineage_start_distribution_bitstring,
                                      chronological(events, h), i))
        => result = "AssertionError"

\* C14: validate fails for a history in which the time-ordered events of
\* some lineage, replayed from its start distribution, do not produce its
\* declared end distribution.
C14_ValidateChecksEndDistribution ==
    (/\ lastOp = "validate"
     /\ \E h \in HostLineages :
            running(lineages[h].lineage_start_distribution_bitstring,
                    chronological(events, h), Len(chronological(events, h)))
                # lineages[h].lineage_end_distribution_bitstring)
        => result # "ok"

\* C15: parse_definition of an empty or None definition succeeds and yields
\* a fully populated model: model_id "Model1", time scale factor 1.0, every
\* mean rate and cladogenetic weight at its default, and each of the six
\* weight functions returning 1.0 for any keyword context.
C15_EmptyDefinitionDefaults ==
    (/\ lastOp = "parse_definition"
     /\ DOMAIN AsDefinition(model_definition) = {})
        => /\ result = "ok"
           /\ DOMAIN model = ModelAttributes
           /\ model["model_id"] = "Model1"
           /\ model["host_to_symbiont_time_scale_factor"] = PyFloat(100)
           /\ \A c \in Channels :
                  /\ model[Channel[c].rate] = Channel[c].default_rate
                  /\ \A kwargs \in Contexts :
                         call(model[Channel[c].function], kwargs)
                             = [v |-> PyFloat(100), exc |-> "none"]
           /\ \A i \in DOMAIN HostCladogenesis :
                  model[HostCladogenesis[i].attr] = HostCladogenesis[i].default
           /\ \A i \in DOMAIN SymbiontCladogenesis :
                  model[SymbiontCladogenesis[i].attr] = SymbiontCladogenesis[i].default

\* a None definition has been parsed
C15_Witness ==
    /\ lastOp = "parse_definition"
    /\ model_definition = PyNone
    /\ result = "ok"
    /\ model["mean_symbiont_lineage_birth_rate"] = PyFloat(3)

\* C16: two HostSystem replicates built from the same HostHistory share no
\* mutable state: no HostLineage or SymbiontLineage mutation in replicate 1
\* changes an Area, a HostLineage or the event list of replicate 2, or the
\* lineage definitions and the event list of the HostHistory.
C16_ReplicatesIsolated ==
    [][/\ ReplicateState(2)' = ReplicateState(2)
       /\ UNCHANGED <<events, lineages>>]_vars

\* replicate 1 has activated a host and infected it, replicate 2 is as built
C16_Witness ==
    /\ lastOp = "add_host_in_area"
    /\ result = "ok"
    /\ \E a \in Areas : host_lineages[a] # {} /\ symbiont_lineages[a] # {}
    /\ \A i \in DOMAIN host_systems[2].areas :
           /\ host_systems[2].areas[i].id \notin Areas
           /\ area_host_lineages(host_systems[2].areas[i].id) = {}
    /\ Len(host_systems[2].host_events) > 0

\* C17: after any sequence of activate, deactivate, add_area, remove_area and
\* clear_areas calls on the host lineages of one HostSystem, area a is in host
\* h's current-area set iff h is in a.host_lineages.
C17_BackReferenceSymmetric ==
    \A h \in HostLineages, a \in Areas :
        a \in current_areas[h] <=> h \in host_lineages[a]

\* an area has just been removed from a host that still occupies another one
C17_Witness ==
    /\ lastOp = "remove_area"
    /\ result = "ok"
    /\ \E h \in HostLineages, a, b \in Areas :
           /\ a \notin current_areas[h] /\ h \notin host_lineages[a]
           /\ b \in current_areas[h] /\ h \in host_lineages[b]

\* C18: in every state reachable through the public HostLineage mutators, a
\* host lineage whose extancy is "pre" or "post" has an empty current-area
\* set and is in no Area's host_lineages.
C18_InactiveHostHoldsNoArea ==
    \A h \in HostLineages :
        extancy[h] \in {"pre", "post"} =>
            /\ current_areas[h] = {}
            /\ \A a \in Areas : h \notin host_lineages[a]

\* C19: activate on a host lineage that is not "pre", activate with a time
\* outside [start_time, end_time], and deactivate on a host lineage that is
\* not "current" each fail, and leave the host's extancy, its current-area
\* set and every Area.host_lineages unchanged.
C19_RejectedTransitionChangesNothing ==
    [][/\ \A h \in HostLineages, t \in Times \cup {None} :
             /\ activate(h, t)
             /\ \/ extancy[h] # "pre"
                \/ t # None /\ ~is_in_range(t, start_time(h), end_time(h))
             => /\ result' # "ok"
                /\ extancy'[h] = extancy[h]
                /\ current_areas'[h] = current_areas[h]
                /\ host_lineages' = host_lineages
       /\ \A h \in HostLineages :
             deactivate(h) /\ extancy[h] # "current"
             => /\ result' # "ok"
                /\ extancy'[h] = extancy[h]
                /\ current_areas'[h] = current_areas[h]
                /\ host_lineages' = host_lineages]_vars

\* an activate was rejected for its time while areas are occupied
C19_Witness ==
    /\ lastOp = "activate"
    /\ result = "NameError"
    /\ \E a \in Areas : host_lineages[a] # {}
    /\ \E h \in HostLineages : extancy[h] = "pre" /\ current_areas[h] = {}

\* the areas whose bit in the start-distribution bitstring of host h is "1"
StartAreas(h) == {a \in Areas : start_distribution_bitstring(h)[a + 1] = "1"}

\* C20: after a successful activate on a "pre" host lineage its extancy is
\* "current" and its current-area set is exactly the areas whose bit in the
\* start-distribution bitstring is "1", each of them listing the host and no
\* other area listing it.
C20_ActivateSeedsStartDistribution ==
    [][\A h \in HostLineages, t \in Times \cup {None} :
          activate(h, t) /\ extancy[h] = "pre" /\ result' = "ok"
          => /\ extancy'[h] = "current"
             /\ current_areas'[h] = StartAreas(h)
             /\ \A a \in Areas : h \in host_lineages'[a] <=> a \in StartAreas(h)]_vars

\* C21: after remove_host_in_area(host) with area omitted returns or raises
\* NullDistributionException, every cell of the host is 0, the host is not in
\* the infected-host set, and every area the lineage occupies through no host
\* is absent from the infected-area set and does not list the lineage.
C21_RemoveHostClearsHost ==
    [][\A l \in LineageIds, h \in HostLineages :
          /\ remove_host_in_area(l, h, None)
          /\ result' \in {"ok", "NullDistributionException"}
          => /\ \A a \in Areas : host_area_distribution'[l][h][a] = 0
             /\ h \notin infected_hosts'[l]
             /\ \A a \in Areas :
                   (\A g \in HostLineages : host_area_distribution'[l][g][a] = 0)
                   => a \notin infected_areas'[l] /\ l \notin symbiont_lineages'[a]]_vars

\* C22: add_host_in_area(host, area) with an area the host does not currently
\* occupy fails and leaves the lineage's matrix, both derived sets and every
\* Area.symbiont_lineages unchanged.
C22_AddOutsideHostRangeRejected ==
    [][\A l \in LineageIds, h \in HostLineages, a \in Areas :
          add_host_in_area(l, h, a) /\ a \notin current_areas[h]
          => /\ result' # "ok"
             /\ UNCHANGED <<host_area_distribution, infected_hosts, infected_areas,
                            symbiont_lineages>>]_vars

\* the call was rejected on a lineage that has a distribution to lose
C22_Witness ==
    /\ lastOp = "add_host_in_area"
    /\ result = "AssertionError"
    /\ \E l \in current_lineages : Cells(l) # {} /\ infected_areas[l] # {}

\* the symbiont-side state after the step
SymStateAfter == [d |-> host_area_distribution', ih |-> infected_hosts',
                  ia |-> infected_areas', sl |-> symbiont_lineages', exc |-> "ok"]

\* C23: update_distribution(other) is an additive merge: afterwards the set of
\* occupied cells of self is the union of its previous set and other's set,
\* other's matrix and caches are unchanged, and applying the same update a
\* second time changes nothing.
C23_UpdateIsAdditiveMerge ==
    [][\A l, other \in LineageIds :
          update_distribution(l, other)
          => /\ Cells(l)' = Cells(l) \cup Cells(other)
             /\ host_area_distribution'[other] = host_area_distribution[other]
             /\ infected_hosts'[other] = infected_hosts[other]
             /\ infected_areas'[other] = infected_areas[other]
             /\ \A horder \in Orders(HostLineages) :
                    SymUpdateDistribution(SymStateAfter, l, other, horder)
                        = SymStateAfter]_vars

C25_SplitRetiresParent ==
    [][\A l \in current_lineages :
          split_lineage(l)
          => /\ l \notin current_lineages'
             /\ ~is_extant'[l]
             /\ Cells(l)' = {}
             /\ infected_hosts'[l] = {} /\ infected_areas'[l] = {}
             /\ \A a \in Areas : l \notin symbiont_lineages'[a]
             /\ current_lineages' \ current_lineages
                    = {lineage_indexer, lineage_indexer + 1}
             /\ current_lineages \ current_lineages' = {l}
             /\ is_extant'[lineage_indexer] /\ is_extant'[lineage_indexer + 1]
             /\ child_nodes'[l] = child_nodes[l] \o <<lineage_indexer, lineage_indexer + 1>>
             /\ Cardinality(current_lineages') = Cardinality(current_lineages) + 1
             /\ \A m \in current_lineages \ {l} :
                   /\ host_area_distribution'[m] = host_area_distribution[m]
                   /\ infected_hosts'[m] = infected_hosts[m]
                   /\ infected_areas'[m] = infected_areas[m]
                   /\ is_extant'[m]]_vars

\* C26: extinguish_lineage(L) on a live lineage L when at least two lineages
\* are live sets L.is_extant to False and removes exactly L from
\* current_lineages; every other live lineage stays live with its distribution
\* unchanged.
C26_ExtinguishRemovesOnlyTarget ==
    [][\A l \in current_lineages :
          extinguish_lineage(l) /\ Cardinality(current_lineages) >= 2
          => /\ ~is_extant'[l]
             /\ current_lineages' = current_lineages \ {l}
             /\ \A m \in current_lineages \ {l} :
                   /\ is_extant'[m]
                   /\ host_area_distribution'[m] = host_area_distribution[m]
                   /\ infected_hosts'[m] = infected_hosts[m]
                   /\ infected_areas'[m] = infected_areas[m]]_vars

\* one of two sister lineages was extinguished, the other keeps its cells
C26_Witness ==
    /\ lastOp = "extinguish_lineage"
    /\ result = "ok"
    /\ Cardinality(current_lineages) = 1
    /\ \E l \in Created \ current_lineages, m \in current_lineages :
          /\ l # 0 /\ ~is_extant[l]
          /\ is_extant[m] /\ Cells(m) # {}

\* C27: in every state reachable through split_lineage and extinguish_lineage,
\* every symbiont lineage in any Area.symbiont_lineages is a member of
\* current_lineages: a retired lineage is registered in no Area.
C27_RetiredLineageUnregistered ==
    \A a \in Areas : symbiont_lineages[a] \subseteq current_lineages

\* the events of list at time t, in their order in list
at_time(list, t) == SelectSeq(list, LAMBDA e : e.event_time = t)

\* C28: after HostHistory.compile(tree, start_time, end_time) returns, the
\* events are in non-decreasing event_time order, equal-time events in their
\* original relative order, and every event_time lies in
\* [start_time, end_time]; compile fails if any event time is outside it.
C28_CompileSortsAndBoundsEvents ==
    [][\A tr \in Trees, st \in StartTimes, en \in EndTimes :
          compile(tr, st, en)
          => /\ result' = "ok"
                => /\ \A i, j \in DOMAIN events' :
                          i < j => events'[i].event_time <= events'[j].event_time
                   /\ Len(events') = Len(events)
                   /\ \A t \in Times : at_time(events', t) = at_time(events, t)
                   /\ \A i \in DOMAIN events' :
                          /\ st <= events'[i].event_time
                          /\ events'[i].event_time <= en
                   /\ host_history'.start_time = st /\ host_history'.end_time = en
             /\ (\E i \in DOMAIN events :
                    events[i].event_time < st \/ events[i].event_time > en)
                => result' # "ok"]_vars

\* a compiled history with two events of one time, the later lineage first,
\* and a later event behind them
C28_Witness ==
    /\ lastOp = "compile"
    /\ result = "ok"
    /\ Len(events) = MaxEvents
    /\ \E i, j, k \in DOMAIN events :
          /\ i < j /\ j < k
          /\ events[i].event_time = events[j].event_time
          /\ events[i].lineage_id > events[j].lineage_id
          /\ events[j].event_time < events[k].event_time

\* C29: HostHistory.compile fails when some event's lineage_id is not a key
\* of the lineage map, and when the set of the tree's bipartition keys differs
\* from the set of recorded lineage ids, in either direction.
C29_CompileStructuralErrors ==
    [][\A tr \in Trees, st \in StartTimes, en \in EndTimes :
          /\ compile(tr, st, en)
          /\ \/ \E i \in DOMAIN events : events[i].lineage_id \notin DOMAIN lineages
             \/ tr # DOMAIN lineages
          => result' # "ok"]_vars

\* the widths of the start and end distribution bitstrings of the lineage map
BitstringWidths ==
    {Len(lineages[h].lineage_start_distribution_bitstring) : h \in DOMAIN lineages}
    \cup {Len(lineages[h].lineage_end_distribution_bitstring) : h \in DOMAIN lineages}

\* C30: HostSystem construction yields exactly w Area objects whose area_idx
\* equals their position 0..w-1 in the areas list, where w is the common
\* width of every lineage's start and end distribution bitstrings;
\* construction fails if any lineage's start or end bitstring has a different
\* width.
C30_AreasMatchBitstringWidth ==
    [][\A r \in Replicates :
          HostSystem(r)
          => /\ result' = "ok"
                => /\ BitstringWidths = {Len(host_systems'[r].areas)}
                   /\ \A i \in DOMAIN host_systems'[r].areas :
                          host_systems'[r].areas[i].area_idx = i - 1
                   /\ \A i, j \in DOMAIN host_systems'[r].areas :
                          i # j => host_systems'[r].areas[i].id
                                      # host_systems'[r].areas[j].id
             /\ Cardinality(BitstringWidths) > 1 => result' # "ok"]_vars

\* a HostSystem was constructed from a history whose bitstrings are narrower
\* than those of the replicates' history
C30_Witness ==
    /\ lastOp = "HostSystem"
    /\ result = "ok"
    /\ BitstringWidths = {NumAreas - 1}
    /\ \E r \in Replicates :
          /\ Len(host_systems[r].areas) = NumAreas - 1
          /\ DOMAIN host_systems[r].host_lineages_by_id = DOMAIN lineages

(***************************************************************************)
(* C31: extant_host_lineages_at_current_time(t) returns exactly the host   *)
(* lineages of the system with start_time <= t <= end_time, each once,     *)
(* whatever their extancy, and changes no state.                           *)
(***************************************************************************)
Range(list) == {list[i] : i \in DOMAIN list}

C31_ExtantLineagesSpanTime ==
    [][\A r \in Replicates, t \in QueryTimes :
          extant_host_lineages_at_current_time(r, t)
          => /\ Range(returned') =
                    {host_systems[r].host_lineages_by_id[h] :
                        h \in {k \in DOMAIN host_systems[r].host_lineages_by_id :
                                  is_in_range(t, start_time(k), end_time(k))}}
             /\ Len(returned') = Cardinality(Range(returned'))
             /\ UNCHANGED <<hostVars, symVars, phyVars, host_order, modelVars,
                            historyVars, replicateVars>>]_vars

\* the query at the end time of lineage 2 returned it, and only it, although
\* the lineage is not "current"
C31_Witness ==
    /\ lastOp = "extant_host_lineages_at_current_time"
    /\ arguments = <<1, end_time(2)>>
    /\ returned = <<host_systems[1].host_lineages_by_id[2]>>
    /\ extancy[2] # "current"
    /\ extancy[1] = "current"

(***************************************************************************)
(* C32: sync_area_cache(area, search_all_hosts=True) scans every host      *)
(* lineage of the system: afterwards the area is in the infected-area set  *)
(* and the lineage is in area.symbiont_lineages iff some host of the whole *)
(* system has the cell of that area set, hosts that no longer occupy the   *)
(* area included.                                                          *)
(***************************************************************************)
C32_SyncAllHostsScansSystem ==
    [][\A l \in LineageIds, a \in Areas :
          sync_area_cache(l, a, TRUE)
          => LET occupied == \E h \in HostLineages : host_area_distribution[l][h][a] = 1
             IN  /\ a \in infected_areas'[l] <=> occupied
                 /\ l \in symbiont_lineages'[a] <=> occupied]_vars

(***************************************************************************)
(* C33: a definition whose definition_type is none of fixed_value,         *)
(* lambda_definition and function_object (hyphens read as underscores) is  *)
(* refused with ValueError when the RateFunction is built, and the         *)
(* RateFunction gets no callable rate; a fixed_value RateFunction returns  *)
(* its configured number in every keyword context.                         *)
(***************************************************************************)
RecognizedTypes == {"fixed_value", "lambda_definition", "function_object"}

\* the dictionary is a well-formed function definition: it has a type and a
\* content, and no keyword but these and the description
WellFormed(d) ==
    /\ {"definition_type", "definition"} \subseteq DOMAIN d
    /\ DOMAIN d \subseteq {"definition_type", "definition", "description"}

ConsistentWithin(ext, start, end, t) ==
    CASE ext = "pre" -> t <= start + epsilon
      [] ext = "post" -> t >= end - epsilon
      [] ext = "current" -> start - epsilon <= t /\ t <= end + epsilon

C34_ExtancyCheckWithinEpsilon ==
    [][\A h \in HostLineages, t \in CheckTimes :
          debug_check_extancy_state(h, t)
          => (result' = "ok"
                 <=> ConsistentWithin(
                         extancy[h],
                         lineages[h].lineage_start_time * host_to_symbiont_time_scale_factor,
                         lineages[h].lineage_end_time * host_to_symbiont_time_scale_factor,
                         t))]_vars

(***************************************************************************)
(* C35: for non-negative weights with a positive sum and a draw u in       *)
(* [0, 1), weighted_index_choice(weights, sum(weights), rng) returns the   *)
(* one index i with sum(weights[:i]) <= u * sum(weights) <                 *)
(* sum(weights[:i+1]); it returns neither None nor an index out of range   *)
(* nor an index whose weight is 0.                                         *)
(***************************************************************************)
RECURSIVE Total(_, _)
\* the sum of the first n weights, as a real number
Total(weights, n) == IF n = 0 THEN 0 ELSE Total(weights, n - 1) + weights[n]

C35_IndexOfCumulativeInterval ==
    [][/\ weighted_index_choice
       /\ Total(arguments.weights, Len(arguments.weights)) > 0
       => LET weights == arguments.weights
              i == returned'
              target == arguments.u * Total(weights, Len(weights))
          IN  /\ i # None
              /\ i \in 0..(Len(weights) - 1)
              /\ weights[i + 1] # 0
              /\ Total(weights, i) * One <= target
              /\ target < Total(weights, i + 1) * One]_vars

(***************************************************************************)
(* C36: weighted_choice called with len(seq) - 1 weights gives the last    *)
(* element of seq the remaining weight 1 - sum(weights): for a draw u in   *)
(* [0, 1) it returns the element whose interval of cumulative weight (of   *)
(* the completed list, total 1) contains u, and so the last element        *)
(* whenever u >= sum(weights).                                             *)
(***************************************************************************)
C36_LastElementTakesRemainingWeight ==
    [][/\ weighted_choice
       /\ "weights" \in DOMAIN arguments
       /\ Len(arguments.weights) = Len(arguments.seq) - 1
       /\ Total(arguments.weights, Len(arguments.weights)) <= One
       => LET weights == arguments.weights
              n == Len(weights)
          IN  /\ result' = "ok"
              /\ \A i \in 1..n :
                    Total(weights, i - 1) <= arguments.u /\ arguments.u < Total(weights, i)
                    => returned' = arguments.seq[i]
              /\ arguments.u >= Total(weights, n) => returned' = arguments.seq[n + 1]]_vars

(***************************************************************************)
(* C37: sync_area_cache(area) and sync_host_cache(host) are idempotent: in *)
(* any state, when a call has returned, the same call made again returns   *)
(* normally and leaves the state the first call produced; and a call for   *)
(* an area or a host that is absent from the cache and has no occupied     *)
(* cell leaves the caches as they are.                                     *)
(***************************************************************************)
\* the state a call leaves, as the next call finds it
Returned(s) == [s EXCEPT !.exc = "ok"]

C37_SyncIdempotent ==
    \A l \in current_lineages, f \in BOOLEAN :
       /\ \A a \in Areas :
             LET first == SymSyncAreaCache(SymState, l, a, f)
                 second == SymSyncAreaCache(Returned(first), l, a, f)
             IN  /\ first.exc = "ok" => second = first
                 /\ (/\ a \notin infected_areas[l]
                     /\ \A h \in HostLineages : host_area_distribution[l][h][a] = 0)
                    => Returned(first) = SymState
       /\ \A h \in HostLineages :
             LET first == SymSyncHostCache(SymState, l, h, f)
                 second == SymSyncHostCache(Returned(first), l, h, f)
             IN  /\ first.exc = "ok" => second = first
                 /\ (/\ h \notin infected_hosts[l]
                     /\ \A a \in Areas : host_area_distribution[l][h][a] = 0)
                    => Returned(first) = SymState

(***************************************************************************)
(* C38: a split_lineage(L) that fails (L is not live, or the copy of L's   *)
(* distribution hits a cell of a host that has left the area) leaves the   *)
(* state as it was: current_lineages, L's is_extant flag and distribution  *)
(* and every Area.symbiont_lineages are unchanged, and no child that never *)
(* became live is registered in an Area.                                   *)
(***************************************************************************)
C38_FailedSplitChangesNothing ==
    [][\A l \in LineageIds :
          split_lineage(l) /\ result' # "ok"
          => /\ current_lineages' = current_lineages
             /\ is_extant'[l] = is_extant[l]
             /\ host_area_distribution'[l] = host_area_distribution[l]
             /\ infected_hosts'[l] = infected_hosts[l]
             /\ infected_areas'[l] = infected_areas[l]
             /\ symbiont_lineages' = symbiont_lineages
             /\ \A a \in Areas :
                   symbiont_lineages'[a] \cap {lineage_indexer, lineage_indexer + 1} = {}]_vars

(***************************************************************************)
(* C39: HostLineage.activate, deactivate, add_area, remove_area and        *)
(* clear_areas change only that host's extancy, its set of current areas   *)
(* and the Area.host_lineages sets: every SymbiontLineage matrix, every    *)
(* infected-host and infected-area cache and every Area.symbiont_lineages  *)
(* set is left as it was, and so is every other host.                      *)
(***************************************************************************)
C39_HostMutatorsLeaveSymbionts ==
    [][\A h \in HostLineages :
          \/ \E t \in Times \cup {None} : activate(h, t)
          \/ deactivate(h)
          \/ \E a \in Areas : add_area(h, a) \/ remove_area(h, a)
          \/ clear_areas(h)
          => /\ host_area_distribution' = host_area_distribution
             /\ infected_hosts' = infected_hosts
             /\ infected_areas' = infected_areas
             /\ symbiont_lineages' = symbiont_lineages
             /\ \A g \in HostLineages \ {h} :
                   /\ extancy'[g] = extancy[g]
                   /\ current_areas'[g] = current_areas[g]
                   /\ \A a \in Areas : g \in host_lineages'[a] <=> g \in host_lineages[a]]_vars

\* host 1 was deactivated while the seed lineage occupied it in area 0, and
\* the lineage kept its cell, its caches and its place in the area
C39_Witness ==
    /\ lastOp = "deactivate"
    /\ result = "ok"
    /\ extancy[1] = "post"
    /\ host_area_distribution[0][1][0] = 1
    /\ 1 \in infected_hosts[0]
    /\ 0 \in infected_areas[0]
    /\ 0 \in symbiont_lineages[0]

=============================================================================
